---- MODULE Spec2Model ----
(***************************************************************************)
(* A model of the radar perception core of rm_radar: the Robot entity      *)
(* (src/src/robot/robot.cpp), the Tracker (tracker.cpp, kept as            *)
(* src/unnamed/part_001) and the Locator (src/src/locate/locate.cpp).      *)
(*                                                                         *)
(* The specifications of the module:                                       *)
(*   Spec        - the Tracker: one action per call of Tracker::update     *)
(*   SpecRobot   - one Robot object under its constructor and setters      *)
(*   SpecLocator - the Locator: Locator::update with its parallel loops    *)
(*   SpecSearch  - the Locator: update, cluster and search on few clouds   *)
(*   SpecScore   - the distance score of Tracker::calculateCost            *)
(*   SpecCost    - the feature score of Tracker::calculateCost             *)
(*   SpecTrack   - the counter-based Track of src/unnamed/part_000         *)
(*   SpecReferee - the RefereeCommunicator: update, decode, reconnect      *)
(*   SpecComm    - the RefereeCommunicator: its threads and comm_mutex_    *)
(* Each one holds the variables of the others at their initial value.      *)
(***************************************************************************)
EXTENDS Integers, Sequences, FiniteSets, TLC

VARIABLES
    \* ---- Robot (SpecRobot) ----
    robot,          \* the Robot object
    robot_prev,     \* the Robot before the last operation on it
    track_arg,      \* the Track handed to the last setTrack, <<>> when none
    rop,            \* the last operation on the Robot, none before its construction
    car_in,         \* the car detection the Robot is assembled from
    armors_in,      \* the armor detections the Robot is assembled from
    feature_out,    \* what the last feature(class_num) call came to, <<>> when none
    \* ---- Tracker (Spec) ----
    init_thresh,    \* Tracker::init_thresh_
    miss_thresh,    \* Tracker::miss_thresh_
    tracks,         \* Tracker::tracks_
    latest_id,      \* Tracker::latest_id_
    robots,         \* the caller's vector of robots when update has returned
    robots_in,      \* the same vector when update was called
    match_result,   \* the local match_result of the last update
    tracks_pre,     \* tracks_ when the last update was called
    tracks_mid,     \* tracks_ of the last update right before the final erase
    unmatched,      \* the local unmatched_robot_indices of the last update
    tphase,         \* the pipeline's place in the frame: idle, presented, returned
    streak,         \* history: the updates so far of the promotion scenario, 0 outside it
    \* ---- Locator (SpecLocator) ----
    background_depth_image, \* Locator::background_depth_image_
    depth_image,            \* Locator::depth_image_
    diff_depth_image,       \* Locator::diff_depth_image_
    depth_images,           \* Locator::depth_images_ (the queue of frames)
    cloud,                  \* the cloud of the update in progress
    ppc,                    \* per point of the cloud: where its loop body stands
    seen,                   \* per point: the background depth its body read
    background_before,      \* background_depth_image_ when update was called
    writes,                 \* the (column, row) of every image write of this update
    oob_write,              \* an image write of this update fell outside the buffer
    pushed,                 \* history: the frames queued so far, up to queue_size_ + 1
    lpc,                    \* where the Locator stands: idle, or in which call
    cloud_foreground,       \* Locator::cloud_foreground_
    point_index_map,        \* Locator::point_index_map_, as pairs <<pixel, index>>
    index_cluster_map,      \* Locator::index_cluster_map_, as pairs <<index, cluster>>
    clusters,               \* Locator::clusters_, the indices of each cluster
    lrobots,                \* the caller's vector of robots during search(robots)
    lrobots_in,             \* the same vector when search was called
    spc,                    \* per robot of the vector: where its search task stands
    last_update,            \* history: the last update had a cloud with points (frame) or not (empty)
    clustered,              \* history: cluster has run since the last update
    \* ---- Tracker::calculateCost, the distance score (SpecScore) ----
    distance_thresh,        \* Tracker::distance_thresh_, in units of the grid
    distance,               \* the distance of the robot to the track
    distance_score,         \* the local distance_score, <<>> before it is computed
    score_pc,               \* is a distance chosen and the score computed
    \* ---- RefereeCommunicator, receive side (SpecReferee) ----
    is_connected,           \* RefereeCommunicator::is_connected_
    data_buffer,            \* RefereeCommunicator::data_buffer_
    decode_status,          \* the DecodeStatus of decode: Free, Length, CRC16
    records,                \* the referee records, by command code; <<>> for a null pointer
    wire,                   \* the bytes the serial line still holds
    sent,                   \* history: what the line was filled with, piece by piece
    updates,                \* history: the <<command code, data>> of every fetchData that swapped a record
    decode_event,           \* history: what the last step of update did
    \* ---- RefereeCommunicator, its threads and comm_mutex_ (SpecComm) ----
    comm_mutex,             \* RefereeCommunicator::comm_mutex_: its exclusive owner and its shared holders
    cpc,                    \* per thread: where it stands
    record,                 \* a referee record, as the two halves a writer fills one after the other
    observed,               \* per thread: the halves of the record it has read
    send_seq,               \* the Seq of the next frame encode sends
    \* ---- the counter-based Track of part_000 (SpecTrack) ----
    old_track,              \* the Track: state, hits, age, time_since_update, _n_init, _max_age
    old_track_prev,         \* the Track before the last operation on it
    old_track_op,           \* the last operation on the Track
    misses,                 \* history: the predit + mark_missed rounds since the last update,
                            \* -1 when the calls since then were not such rounds
    since_update,           \* history: the state of the Track after its last update
    \* ---- Tracker::calculateCost, the feature score (SpecScore) ----
    cost_call               \* the last call of calculateCost, <<>> when none

robotVars == <<robot, robot_prev, track_arg, rop, car_in, armors_in, feature_out>>
trackerVars == <<init_thresh, miss_thresh, tracks, latest_id, robots, robots_in,
                 match_result, tracks_pre, tracks_mid, unmatched, tphase, streak>>
locatorVars == <<background_depth_image, depth_image, diff_depth_image,
                 depth_images, cloud, ppc, seen, background_before, writes,
                 oob_write, pushed, lpc>>
searchData == <<cloud_foreground, point_index_map, index_cluster_map, clusters,
                lrobots, lrobots_in, spc>>
searchVars == <<searchData, last_update, clustered>>
scoreVars == <<distance_thresh, distance, distance_score, score_pc>>
refereeVars == <<is_connected, data_buffer, decode_status, records, wire, sent,
                 updates, decode_event>>
coreVars == <<robotVars, trackerVars, locatorVars, searchVars, scoreVars>>
commVars == <<comm_mutex, cpc, record, observed, send_seq>>
oldTrackVars == <<old_track, old_track_prev, old_track_op, misses, since_update>>
costVars == <<cost_call>>
restVars == <<refereeVars, commVars, oldTrackVars, costVars>>
vars == <<coreVars, restVars>>

(***************************************************************************)
(* Bounds of the model.                                                    *)
(***************************************************************************)
MaxArmors == 2      \* armors of one robot
MaxRobots == 2      \* robots handed to one Tracker::update
MaxId == 2          \* tracks ever created by one Tracker
MaxThreshSum == 3   \* init_thresh >= 1, miss_thresh >= 1, and their sum is at most this
MaxPoints == 2      \* points of one cloud
MaxDepth == 2       \* the depths of the points that are not too far are 1..MaxDepth
MaxSearchRobots == 2 \* robots handed to one Locator::search
MaxThresh == 8      \* distance_thresh is 1..MaxThresh length units
MaxRatio == 4       \* a distance is at most MaxRatio times distance_thresh
MaxData == 1        \* bytes of Data in one frame
MaxChunk == 2       \* bytes one read of the serial line returns
MaxSeq == 1         \* the Seq of a frame is 0..MaxSeq and wraps
MaxRecord == 2      \* the values of a referee record are 0..MaxRecord
MaxNInit == 3       \* n_init of a counter-based Track is 0..MaxNInit
MaxMaxAge == 2      \* max_age of a counter-based Track is 0..MaxMaxAge
MaxHits == 5        \* a counter-based Track is updated while hits < MaxHits
MaxTrackAge == 8    \* a counter-based Track is predicted while age < MaxTrackAge

(***************************************************************************)
(* std::optional<T>: the empty sequence, or the one-element sequence.      *)
(***************************************************************************)
nullopt == <<>>
Some(v) == <<v>>
has_value(o) == o /= <<>>
value(o) == o[1]

Min(a, b) == IF a <= b THEN a ELSE b

RECURSIVE SumSeq(_)
SumSeq(s) == IF s = <<>> THEN 0 ELSE s[1] + SumSeq(Tail(s))

Labels == {3, 5}            \* class ids the detector reports
Locs == {1, 2}              \* field positions (abstract points)
Confs == {0, 4, 9}          \* confidences, in tenths
TLabels == {3}              \* the labels of the robots the Tracker is handed
TLocs == {1}                \* the locations of the robots the Tracker is handed

(***************************************************************************)
(* Robot                                                                   *)
(***************************************************************************)
Detection(x, y, w, h, label, confidence) ==
    [x |-> x, y |-> y, width |-> w, height |-> h,
     label |-> label, confidence |-> confidence]

\* A default-constructed Robot: every optional empty.
EmptyRobot ==
    [rect |-> nullopt, label |-> nullopt, confidence |-> nullopt,
     armors |-> nullopt, location |-> nullopt, track_state |-> nullopt]

isDetected(r) == has_value(r.label)
isLocated(r) == has_value(r.location)

\* score_map[label]: the summed confidence of the armors of that label.
score_map(armors, l) ==
    SumSeq([i \in 1..Len(armors) |->
              IF armors[i].label = l THEN armors[i].confidence ELSE 0])

\* std::ranges::max_element over the std::map: the first (smallest) key among
\* those of maximal score.
max_label(armors) ==
    LET keys == {armors[i].label : i \in 1..Len(armors)}
        best == {l \in keys : \A k \in keys : score_map(armors, k) <= score_map(armors, l)}
    IN  CHOOSE l \in best : \A k \in best : l <= k

\* A mutant of the count: every armor is counted, whatever its label.
count_all(armors, l) == Len(armors)

count_label(armors, l) == Cardinality({i \in 1..Len(armors) : armors[i].label = l})

\* Robot::setDetection on a fresh Robot (the constructor's only caller).  The
\* confidence is the quotient num/den, kept exact as the pair.
setDetection(r, car, armors) ==
    LET r1 == [r EXCEPT !.rect = Some([x |-> car.x, y |-> car.y,
                                       width |-> car.width, height |-> car.height])]
    IN  IF armors = <<>> THEN r1
        ELSE LET label == max_label(armors) IN
             [r1 EXCEPT
                !.label = Some(label),
                !.confidence = Some([num |-> score_map(armors, label),
                                     den |-> count_label(armors, label)]),
                !.armors = Some([i \in 1..Len(armors) |->
                                   [armors[i] EXCEPT !.x = @ + car.x, !.y = @ + car.y]])]

Robot(car, armors) == setDetection(EmptyRobot, car, armors)

setLocation(r, p) == [r EXCEPT !.location = Some(p)]

\* A mutant of setTrack: the Tentative branch overwrites like the Confirmed one.
setTrackAlwaysOverwrite(r, track) ==
    [r EXCEPT !.track_state = Some(track.state),
              !.label = Some(track.label),
              !.location = Some(track.location)]

\* Robot::setTrack.
setTrack(r, track) ==
    LET r1 == [r EXCEPT !.track_state = Some(track.state)]
    IN  IF track.state = "Confirmed"
        THEN [r1 EXCEPT !.label = Some(track.label),
                        !.location = Some(track.location)]
        ELSE [r1 EXCEPT !.label = IF has_value(@) THEN @ ELSE Some(track.label),
                        !.location = IF has_value(@) THEN @ ELSE Some(track.location)]

\* The zero vector of class_num entries; an entry is the pair <<num, den>>.
ZeroVector(class_num) == [i \in 0..(class_num - 1) |-> <<0, 1>>]

\* A mutant of feature: the accumulated confidences are returned as they are.
featureUnnormalised(r, class_num) ==
    IF ~isDetected(r)
    THEN [failed |-> FALSE, vector |-> ZeroVector(class_num)]
    ELSE IF ~has_value(r.armors)
    THEN [failed |-> TRUE, vector |-> <<>>]
    ELSE [failed |-> FALSE,
          vector |-> [i \in 0..(class_num - 1) |-> <<score_map(value(r.armors), i), 1>>]]

\* Robot::feature(class_num), for labels below class_num.  armors_.value() on
\* an empty optional throws std::bad_optional_access, and the function is
\* noexcept: the call ends in std::terminate (failed).
feature(r, class_num) ==
    IF ~isDetected(r)
    THEN [failed |-> FALSE, vector |-> ZeroVector(class_num)]
    ELSE IF ~has_value(r.armors)
    THEN [failed |-> TRUE, vector |-> <<>>]
    ELSE LET armors == value(r.armors)
             sum == SumSeq([i \in 1..Len(armors) |-> armors[i].confidence])
         IN  [failed |-> FALSE,
              vector |-> IF sum = 0 THEN ZeroVector(class_num)
                         ELSE [i \in 0..(class_num - 1) |->
                                 <<score_map(armors, i), sum>>]]

(***************************************************************************)
(* Track (track.h / track.cpp of the tracker are not among the sources:    *)
(* the Track below follows the spec's data model, section 3 and 4.3.1).    *)
(* The filter's estimate is abstracted to a point of Locs and the feature  *)
(* vector to the label it votes for.                                       *)
(***************************************************************************)
kNotMatched == -1

\* Track::Track: a Tentative track seeded from a location and a feature.
Track(location, label, track_id) ==
    [track_id |-> track_id, state |-> "Tentative", init_count |-> 0,
     miss_count |-> 0, label |-> label, location |-> location]

isTentative(t) == t.state = "Tentative"
isConfirmed(t) == t.state = "Confirmed"
isDeleted(t) == t.state = "Deleted"
setState(t, s) == [t EXCEPT !.state = s]

\* Track::predict: the estimate drifts with the predicted motion.
predict(t) ==
    {[t EXCEPT !.location = l] : l \in TLocs}

\* Track::update(location, feature): the measurement update moves the estimate
\* (to a point the filter picks) and the new feature refreshes the label vote;
\* a zero feature (an undetected robot) leaves the vote as it is.
TrackUpdate(t, location, r) ==
    {[t EXCEPT !.location = l, !.label = b] :
        l \in {t.location, location},
        b \in (IF isDetected(r) THEN {t.label, value(r.label)} ELSE {t.label})}

(***************************************************************************)
(* auction (auction.h is not among the sources): by the spec, section      *)
(* 4.3.2, any one-to-one partial matching of the tracks to robot indices,  *)
(* with kNotMatched for a track left without a robot.                      *)
(***************************************************************************)
RECURSIVE Assignments(_, _)
Assignments(n, avail) ==
    IF n = 0 THEN {<<>>}
    ELSE UNION {{<<c>> \o rest : rest \in Assignments(n - 1, avail \ {c})} :
                  c \in avail \cup {kNotMatched}}

auction(n_tracks, n_robots) == Assignments(n_tracks, 0..(n_robots - 1))

(***************************************************************************)
(* Tracker::update, in the order of its code.                              *)
(***************************************************************************)
\* A mutant of the unmatched branch: the comparison is > instead of >=.
UnmatchedTrackLate(t) ==
    IF isTentative(t) THEN setState(t, "Deleted")
    ELSE IF isConfirmed(t)
         THEN LET t1 == [t EXCEPT !.miss_count = @ + 1]
              IN  IF t1.miss_count > miss_thresh THEN setState(t1, "Deleted") ELSE t1
         ELSE t

\* Lines 144-152: a track the assignment left unmatched.
UnmatchedTrack(t) ==
    IF isTentative(t) THEN setState(t, "Deleted")
    ELSE IF isConfirmed(t)
         THEN LET t1 == [t EXCEPT !.miss_count = @ + 1]
              IN  IF t1.miss_count >= miss_thresh THEN setState(t1, "Deleted") ELSE t1
         ELSE t

\* A mutant of the Tentative bookkeeping: the promotion is one match early.
TentativeCountEarly(t) ==
    IF isTentative(t)
    THEN LET t1 == [t EXCEPT !.init_count = @ + 1]
             t2 == IF t1.init_count + 1 >= init_thresh THEN setState(t1, "Confirmed") ELSE t1
         IN  [t2 EXCEPT !.miss_count = 0]
    ELSE t

\* Lines 159-165: the bookkeeping after the filter update of a matched track.
TentativeCount(t) ==
    IF isTentative(t)
    THEN LET t1 == [t EXCEPT !.init_count = @ + 1]
             t2 == IF t1.init_count >= init_thresh THEN setState(t1, "Confirmed") ELSE t1
         IN  [t2 EXCEPT !.miss_count = 0]
    ELSE t

\* A mutant of the matched branch: the Tentative bookkeeping also runs for a
\* robot without a location.
MatchedTrackUnlocated(t, r) ==
    IF isLocated(r)
    THEN {TentativeCount(u) : u \in TrackUpdate(t, value(r.location), r)}
    ELSE {TentativeCount(t)}

\* Lines 153-166: the possible tracks after a match with robot r.
MatchedTrack(t, r) ==
    IF isLocated(r)
    THEN {TentativeCount(u) : u \in TrackUpdate(t, value(r.location), r)}
    ELSE {t}

\* Lines 140-166 for one predicted track t and its entry of match_result.
ProcessTrack(t, robot_id, rs) ==
    IF robot_id = kNotMatched THEN {UnmatchedTrack(t)}
    ELSE MatchedTrack(t, rs[robot_id + 1])

\* Every sequence that takes its i-th element from sets[i].
RECURSIVE SeqProduct(_)
SeqProduct(sets) ==
    IF sets = <<>> THEN {<<>>}
    ELSE {<<h>> \o rest : h \in sets[1], rest \in SeqProduct(Tail(sets))}

\* Lines 125-126 and 140-166 over the whole list.
ProcessTracks(ts, m, rs) ==
    SeqProduct([i \in 1..Len(ts) |->
        UNION {ProcessTrack(p, m[i], rs) : p \in predict(ts[i])}])

\* A mutant of the write-back: the first matched track is written into every robot.
WriteBackAll(rs, m, ts) ==
    [j \in 1..Len(rs) |->
        IF \E i \in 1..Len(m) : m[i] /= kNotMatched
        THEN setTrack(rs[j], ts[CHOOSE i \in 1..Len(m) : m[i] /= kNotMatched])
        ELSE rs[j]]

\* Lines 167-168: the matched robots get their track written back.
WriteBack(rs, m, ts) ==
    [j \in 1..Len(rs) |->
        IF \E i \in 1..Len(m) : m[i] = j - 1
        THEN setTrack(rs[j], ts[CHOOSE i \in 1..Len(m) : m[i] = j - 1])
        ELSE rs[j]]

\* A mutant of the record of the matches: the track's position is pushed
\* instead of the robot's index.
matched_track_indices(m) ==
    LET idx == {i \in 1..Len(m) : m[i] /= kNotMatched}
        Rank(i) == Cardinality({k \in idx : k <= i})
    IN  [n \in 1..Cardinality(idx) |-> (CHOOSE i \in idx : Rank(i) = n) - 1]

\* Lines 139, 170: matched_robot_indices, in track order.
matched_robot_indices(m) ==
    LET idx == {i \in 1..Len(m) : m[i] /= kNotMatched}
        Rank(i) == Cardinality({k \in idx : k <= i})
    IN  [n \in 1..Cardinality(idx) |-> m[CHOOSE i \in idx : Rank(i) = n]]

\* std::sort over reverse iterators: descending order.
RECURSIVE SortDescending(_)
SortDescending(s) ==
    IF s = <<>> THEN <<>>
    ELSE LET i == CHOOSE i \in 1..Len(s) : \A k \in 1..Len(s) : s[k] <= s[i]
         IN  <<s[i]>> \o SortDescending(SubSeq(s, 1, i - 1) \o SubSeq(s, i + 1, Len(s)))

\* Line 178.
SortMatched(s) == SortDescending(s)

\* std::vector::erase(begin() + index); past the end the vector is left as it is
\* (no run of this model erases past the end: the assignment is one-to-one).
EraseAt(v, index) ==
    IF index + 1 \in 1..Len(v)
    THEN SubSeq(v, 1, index) \o SubSeq(v, index + 2, Len(v))
    ELSE v

RECURSIVE EraseAll(_, _)
EraseAll(v, indices) ==
    IF indices = <<>> THEN v
    ELSE EraseAll(EraseAt(v, indices[1]), Tail(indices))

\* Lines 174-181: unmatched_robot_indices.
unmatched_robot_indices(n_robots, m) ==
    EraseAll([j \in 1..n_robots |-> j - 1], SortMatched(matched_robot_indices(m)))

\* Line 187: the robots a new track is made for.
NeedsTrack(r) == isDetected(r) /\ isLocated(r)

\* A mutant of the creation loop: ++latest_id_ instead of latest_id_++.
RECURSIVE InitTracksPreIncrement(_, _)
InitTracksPreIncrement(st, indices) ==
    IF indices = <<>> THEN st
    ELSE LET index == indices[1]
             r == st.robots[index + 1]
         IN  IF NeedsTrack(r)
             THEN LET track == Track(value(r.location), value(r.label), st.latest_id + 1)
                  IN  InitTracksPreIncrement(
                          [tracks |-> Append(st.tracks, track),
                           robots |-> [st.robots EXCEPT ![index + 1] = setTrack(r, track)],
                           latest_id |-> st.latest_id + 1],
                          Tail(indices))
             ELSE InitTracksPreIncrement(st, Tail(indices))

\* A mutant of the creation loop: latest_id_ is not incremented.
RECURSIVE InitTracksNoIncrement(_, _)
InitTracksNoIncrement(st, indices) ==
    IF indices = <<>> THEN st
    ELSE LET index == indices[1]
             r == st.robots[index + 1]
         IN  IF NeedsTrack(r)
             THEN LET track == Track(value(r.location), value(r.label), st.latest_id)
                  IN  InitTracksNoIncrement(
                          [tracks |-> Append(st.tracks, track),
                           robots |-> [st.robots EXCEPT ![index + 1] = setTrack(r, track)],
                           latest_id |-> st.latest_id],
                          Tail(indices))
             ELSE InitTracksNoIncrement(st, Tail(indices))

\* Lines 183-196: new tracks from the unmatched robots, in index order.  st is
\* [tracks, robots, latest_id].
RECURSIVE InitTracks(_, _)
InitTracks(st, indices) ==
    IF indices = <<>> THEN st
    ELSE LET index == indices[1]
             r == st.robots[index + 1]
         IN  IF NeedsTrack(r)
             THEN LET track == Track(value(r.location), value(r.label), st.latest_id)
                  IN  InitTracks([tracks |-> Append(st.tracks, track),
                                  robots |-> [st.robots EXCEPT ![index + 1] = setTrack(r, track)],
                                  latest_id |-> st.latest_id + 1],
                                 Tail(indices))
             ELSE InitTracks(st, Tail(indices))

\* A mutant of the final erase: the erase is left out.
RemoveDeletedNothing(ts) == ts

\* Lines 198-202.
RemoveDeleted(ts) == SelectSeq(ts, LAMBDA t : ~isDeleted(t))

(***************************************************************************)
(* The inputs of the Tracker: robots as the pipeline hands them over,      *)
(* assembled from a car and its armors, then located or not by the         *)
(* Locator, with no track state yet.                                       *)
(***************************************************************************)
TheCar == Detection(10, 20, 8, 6, 0, 9)

Armor(label, confidence) == Detection(1, 2, 2, 1, label, confidence)

TrackerRobots ==
    LET assembled == {Robot(TheCar, <<>>)} \cup {Robot(TheCar, <<Armor(l, 9)>>) : l \in TLabels}
    IN  assembled \cup {setLocation(r, p) : r \in assembled, p \in TLocs}

RobotVectors == UNION {[1..n -> TrackerRobots] : n \in 0..MaxRobots}

\* The pipeline hands the robots of a new frame to the tracker.
NewFrame ==
    /\ tphase = "idle"
    /\ \E rs \in RobotVectors :
        /\ robots' = rs
        /\ robots_in' = rs
    /\ tphase' = "presented"
    /\ UNCHANGED <<init_thresh, miss_thresh, tracks, latest_id, match_result,
                   tracks_pre, tracks_mid, unmatched, streak, robotVars, locatorVars,
                   searchVars, scoreVars, restVars>>

\* The promotion scenario (spec, section 8, scenario 2): starting from a tracker
\* with no tracks, every update is handed the one robot, detected and located,
\* and from the second update on the robot is matched to the track the first
\* one created.  streak counts the updates of the scenario so far, saturating
\* at init_thresh + 2; any other update ends the scenario.
NextStreak(m) ==
    IF Len(robots) = 1 /\ isDetected(robots[1]) /\ isLocated(robots[1])
    THEN IF tracks = <<>> THEN 1
         ELSE IF streak >= 1 /\ m = <<0>> THEN Min(streak + 1, init_thresh + 2)
         ELSE 0
    ELSE 0

\* Tracker::update(robots, timestamp), from its call to its return.
Update ==
    /\ tphase = "presented"
    /\ \E m \in auction(Len(tracks), Len(robots)) :
       \E ts \in ProcessTracks(tracks, m, robots) :
        LET um == unmatched_robot_indices(Len(robots), m)
            st == InitTracks([tracks |-> ts, robots |-> WriteBack(robots, m, ts),
                              latest_id |-> latest_id], um)
        IN  /\ st.latest_id <= MaxId
            /\ match_result' = m
            /\ tracks_pre' = tracks
            /\ unmatched' = um
            /\ tracks_mid' = st.tracks
            /\ robots' = st.robots
            /\ latest_id' = st.latest_id
            /\ tracks' = RemoveDeleted(st.tracks)
            /\ streak' = NextStreak(m)
    /\ tphase' = "returned"
    /\ UNCHANGED <<init_thresh, miss_thresh, robots_in, robotVars, locatorVars,
                   searchVars, scoreVars, restVars>>

\* The frame ends: the caller's vector and the locals of the call are gone.
EndFrame ==
    /\ tphase = "returned"
    /\ robots' = <<>>
    /\ robots_in' = <<>>
    /\ match_result' = <<>>
    /\ tracks_pre' = <<>>
    /\ tracks_mid' = <<>>
    /\ unmatched' = <<>>
    /\ tphase' = "idle"
    /\ UNCHANGED <<init_thresh, miss_thresh, tracks, latest_id, streak, robotVars, locatorVars,
                   searchVars, scoreVars, restVars>>

(***************************************************************************)
(* The Robot on its own: construction, setLocation, setTrack.              *)
(***************************************************************************)
Cars == {TheCar}

ArmorLists ==
    UNION {[1..n -> {Armor(l, c) : l \in Labels, c \in Confs}] : n \in 0..MaxArmors}

\* The tracks setTrack may be handed.
TrackArgs ==
    {[Track(p, l, 0) EXCEPT !.state = s] :
        p \in Locs, l \in Labels, s \in {"Tentative", "Confirmed", "Deleted"}}

\* Robot::Robot(car, armors).
RobotConstruct ==
    /\ rop = "none"
    /\ robot' = Robot(car_in, armors_in)
    /\ robot_prev' = robot
    /\ track_arg' = <<>>
    /\ rop' = "Robot"
    /\ feature_out' = <<>>
    /\ UNCHANGED <<car_in, armors_in, trackerVars, locatorVars, searchVars, scoreVars, restVars>>

\* Robot::setLocation(location).
RobotSetLocation ==
    /\ rop \notin {"none", "terminated"}
    /\ \E p \in Locs :
        /\ robot' = setLocation(robot, p)
        /\ robot_prev' = robot
        /\ track_arg' = <<>>
        /\ rop' = "setLocation"
    /\ feature_out' = <<>>
    /\ UNCHANGED <<car_in, armors_in, trackerVars, locatorVars, searchVars, scoreVars, restVars>>

\* Robot::setTrack(track).
RobotSetTrack ==
    /\ rop \notin {"none", "terminated"}
    /\ \E t \in TrackArgs :
        /\ robot' = setTrack(robot, t)
        /\ robot_prev' = robot
        /\ track_arg' = <<t>>
        /\ rop' = "setTrack"
    /\ feature_out' = <<>>
    /\ UNCHANGED <<car_in, armors_in, trackerVars, locatorVars, searchVars, scoreVars, restVars>>

\* The class counts feature is called with (the labels are below them).
ClassNums == {6, 8}

\* Robot::feature(class_num): the Robot is left as it is; a call that ends in
\* std::terminate ends the program.
RobotFeature ==
    /\ rop \notin {"none", "terminated"}
    /\ \E class_num \in ClassNums :
        LET f == feature(robot, class_num) IN
        /\ feature_out' = Some([class_num |-> class_num, failed |-> f.failed,
                                vector |-> f.vector])
        /\ rop' = IF f.failed THEN "terminated" ELSE "feature"
    /\ robot_prev' = robot
    /\ track_arg' = <<>>
    /\ UNCHANGED <<robot, car_in, armors_in, trackerVars, locatorVars, searchVars, scoreVars, restVars>>

(***************************************************************************)
(* Locator.  The configuration is an image one pixel wide and three high,  *)
(* a camera that looks along the LiDAR's x axis with the identity as       *)
(* intrinsic matrix, and zoom_factor 1: lidarToCamera((x, y, z)) is        *)
(* (y/x, z/x, x).  A projected coordinate is kept exact, as the pair       *)
(* <<numerator, denominator>> with a positive denominator.                 *)
(***************************************************************************)
image_width_zoomed_ == 1
image_height_zoomed_ == 3
queue_size_ == 2
min_depth_diff_ == 1
max_depth_diff_ == 2
max_distance_ == MaxDepth

Pixels == (0..(image_width_zoomed_ - 1)) \X (0..(image_height_zoomed_ - 1))
BufferSize == image_width_zoomed_ * image_height_zoomed_
ZeroImage == [px \in Pixels |-> 0]
Images == [Pixels -> 0..MaxDepth]
\* What an uninitialised background may hold: also depths beyond MaxDepth.
BackgroundImages == [Pixels -> 0..(MaxDepth + 1)]

Point(x, y, z) == [x |-> x, y |-> y, z |-> z]

\* The points clouds are made of.
CloudPoints ==
    {Point(0, 0, 0)}                                       \* the zero point
    \cup {Point(d, 0, 0) : d \in 1..(MaxDepth + 1)}        \* pixel (0, 0) at depth d
    \cup {Point(1, 0, 1)}                                  \* pixel (0, 1)
    \cup {Point(1, image_width_zoomed_, 0)}                \* u = width, v = 0
    \cup {Point(1, 0, image_height_zoomed_)}               \* u = 0, v = height
    \cup {Point(1, -1, 0)}                                 \* u < 0

\* A cloud pointer: null, or the points it holds.
NullCloud == [null |-> TRUE, points |-> <<>>]
Clouds ==
    {NullCloud} \cup
    {[null |-> FALSE, points |-> ps] : ps \in UNION {[1..n -> CloudPoints] : n \in 0..MaxPoints}}

\* Locator::lidarToCamera, for the points in front of the camera (x > 0).
lidarToCamera(p) == [u |-> <<p.y, p.x>>, v |-> <<p.z, p.x>>, d |-> p.x]

Below(q, n) == q[1] < n * q[2]
Above(q, n) == q[1] > n * q[2]
\* The float-to-int conversion of cv::Mat::at<float>(v, u), for q >= 0.
Trunc(q) == q[1] \div q[2]

\* Lines 176-181: the points the loop body drops before projecting.
SkippedEarly(p) ==
    \/ (p.x = 0 /\ p.y = 0 /\ p.z = 0)
    \/ p.x > max_distance_

\* Lines 184-187: the bounds test on the projection.
OutsideImage(uvd) ==
    \/ Below(uvd.u, 0) \/ Above(uvd.u, image_width_zoomed_)
    \/ Below(uvd.v, 0) \/ Above(uvd.v, image_height_zoomed_)

Skipped(p) == SkippedEarly(p) \/ OutsideImage(lidarToCamera(p))

\* The (column, row) that at<float>(v, u) is called with.
Target(p) == <<Trunc(lidarToCamera(p).u), Trunc(lidarToCamera(p).v)>>

\* cv::Mat::at<float>(row, col) of a continuous matrix: no bounds check, the
\* element at row * cols + col of the buffer.
AtIndex(t) == t[2] * image_width_zoomed_ + t[1]
InBuffer(t) == AtIndex(t) < BufferSize
PixelAt(t) == <<AtIndex(t) % image_width_zoomed_, AtIndex(t) \div image_width_zoomed_>>

\* Lines 158-171: update is called; a null or an empty cloud returns at once.
\* A mutant of the entry of update: the cloud is tested before the two images
\* are set to 0.
UpdateCallTestFirst(c) ==
    /\ lpc = "idle"
    /\ cloud' = c
    /\ IF c.null \/ c.points = <<>>
       THEN /\ lpc' = "returned"
            /\ ppc' = <<>>
            /\ seen' = <<>>
            /\ UNCHANGED <<depth_image, diff_depth_image>>
       ELSE /\ lpc' = "points"
            /\ ppc' = [i \in 1..Len(c.points) |-> "start"]
            /\ seen' = [i \in 1..Len(c.points) |-> 0]
            /\ depth_image' = ZeroImage
            /\ diff_depth_image' = ZeroImage
    /\ background_before' = background_depth_image
    /\ writes' = {}
    /\ oob_write' = FALSE
    /\ last_update' = IF c.null \/ c.points = <<>> THEN "empty" ELSE "frame"
    /\ clustered' = FALSE
    /\ UNCHANGED <<background_depth_image, depth_images, pushed, robotVars, trackerVars,
                   searchData, scoreVars, restVars>>

\* Lines 158-171: update is called; a null or an empty cloud returns at once.
UpdateCall(c) ==
    /\ lpc = "idle"
    /\ cloud' = c
    /\ IF c.null \/ c.points = <<>>
       THEN /\ lpc' = "returned"
            /\ ppc' = <<>>
            /\ seen' = <<>>
       ELSE /\ lpc' = "points"
            /\ ppc' = [i \in 1..Len(c.points) |-> "start"]
            /\ seen' = [i \in 1..Len(c.points) |-> 0]
    /\ depth_image' = ZeroImage
    /\ diff_depth_image' = ZeroImage
    /\ background_before' = background_depth_image
    /\ writes' = {}
    /\ oob_write' = FALSE
    /\ last_update' = IF c.null \/ c.points = <<>> THEN "empty" ELSE "frame"
    /\ clustered' = FALSE
    /\ UNCHANGED <<background_depth_image, depth_images, pushed, robotVars, trackerVars,
                   searchData, scoreVars, restVars>>

UpdateBegin == \E c \in Clouds : UpdateCall(c)

\* Lines 175-189 for point i: the tests, the projection and the read of the
\* background depth.  A read outside the buffer yields any value.
PointRead(i) ==
    /\ lpc = "points"
    /\ i <= Len(ppc)
    /\ ppc[i] = "start"
    /\ LET p == cloud.points[i] IN
       IF Skipped(p)
       THEN /\ ppc' = [ppc EXCEPT ![i] = "done"]
            /\ UNCHANGED seen
       ELSE /\ ppc' = [ppc EXCEPT ![i] = "read"]
            /\ IF InBuffer(Target(p))
               THEN seen' = [seen EXCEPT ![i] = background_depth_image[PixelAt(Target(p))]]
               ELSE \E val \in 0..(MaxDepth + 1) : seen' = [seen EXCEPT ![i] = val]
    /\ UNCHANGED <<background_depth_image, depth_image, diff_depth_image, depth_images,
                   cloud, background_before, writes, oob_write, pushed, lpc,
                   robotVars, trackerVars, searchVars, scoreVars, restVars>>

\* A mutant of the writes: the background depth is written without the test.
PointWriteAlways(i) ==
    /\ lpc = "points"
    /\ i <= Len(ppc)
    /\ ppc[i] = "read"
    /\ LET p == cloud.points[i]
           d == lidarToCamera(p).d
       IN  /\ writes' = writes \cup {Target(p)}
           /\ IF InBuffer(Target(p))
              THEN /\ background_depth_image' =
                        [background_depth_image EXCEPT ![PixelAt(Target(p))] = d]
                   /\ depth_image' = [depth_image EXCEPT ![PixelAt(Target(p))] = d]
                   /\ UNCHANGED oob_write
              ELSE /\ oob_write' = TRUE
                   /\ UNCHANGED <<background_depth_image, depth_image>>
    /\ ppc' = [ppc EXCEPT ![i] = "done"]
    /\ seen' = [seen EXCEPT ![i] = 0]
    /\ UNCHANGED <<diff_depth_image, depth_images, cloud, background_before, pushed, lpc,
                   robotVars, trackerVars, searchVars, scoreVars, restVars>>

\* Lines 189-192 for point i: the writes of the background depth, when the
\* depth read was smaller, and of the depth image.  A write outside the buffer
\* is recorded in oob_write and leaves the images as they are.
PointWrite(i) ==
    /\ lpc = "points"
    /\ i <= Len(ppc)
    /\ ppc[i] = "read"
    /\ LET p == cloud.points[i]
           d == lidarToCamera(p).d
       IN  /\ writes' = writes \cup {Target(p)}
           /\ IF InBuffer(Target(p))
              THEN /\ background_depth_image' =
                        IF d > seen[i]
                        THEN [background_depth_image EXCEPT ![PixelAt(Target(p))] = d]
                        ELSE background_depth_image
                   /\ depth_image' = [depth_image EXCEPT ![PixelAt(Target(p))] = d]
                   /\ UNCHANGED oob_write
              ELSE /\ oob_write' = TRUE
                   /\ UNCHANGED <<background_depth_image, depth_image>>
    /\ ppc' = [ppc EXCEPT ![i] = "done"]
    /\ seen' = [seen EXCEPT ![i] = 0]
    /\ UNCHANGED <<diff_depth_image, depth_images, cloud, background_before, pushed, lpc,
                   robotVars, trackerVars, searchVars, scoreVars, restVars>>

\* A mutant of the queue: on overflow the newest frame is dropped.
EnqueueDropNewest(q, image) ==
    LET q1 == Append(q, image)
    IN  IF Len(q1) > queue_size_ THEN SubSeq(q1, 1, Len(q1) - 1) ELSE q1

\* Lines 195-198: the frame is queued, the oldest dropped on overflow.
Enqueue(q, image) ==
    LET q1 == Append(q, image)
    IN  IF Len(q1) > queue_size_ THEN Tail(q1) ELSE q1

\* A mutant of the difference loop: only the newest frame is compared.
DiffValuesNewest(q, background, px) ==
    LET passing == {k \in {Len(q)} :
                      /\ q[k][px] /= 0
                      /\ background[px] - q[k][px] >= min_depth_diff_
                      /\ background[px] - q[k][px] <= max_depth_diff_}
    IN  IF passing = {} THEN {0} ELSE {q[k][px] : k \in passing}

\* Lines 200-219: the values the parallel loop over the frames may leave in a
\* pixel of diff_depth_image_: the value of any frame that passes the test.
DiffValues(q, background, px) ==
    LET passing == {k \in 1..Len(q) :
                      /\ q[k][px] /= 0
                      /\ background[px] - q[k][px] >= min_depth_diff_
                      /\ background[px] - q[k][px] <= max_depth_diff_}
    IN  IF passing = {} THEN {0} ELSE {q[k][px] : k \in passing}

\* Lines 195-220: the point loop is over; queue, difference image, return.
UpdateEnd ==
    /\ lpc = "points"
    /\ \A i \in 1..Len(ppc) : ppc[i] = "done"
    /\ depth_images' = Enqueue(depth_images, depth_image)
    /\ pushed' = Min(pushed + 1, queue_size_ + 1)
    /\ \E diff \in Images :
        /\ \A px \in Pixels :
            diff[px] \in DiffValues(depth_images', background_depth_image, px)
        /\ diff_depth_image' = diff
    /\ lpc' = "returned"
    /\ UNCHANGED <<background_depth_image, depth_image, cloud, ppc, seen,
                   background_before, writes, oob_write, robotVars, trackerVars, searchVars, scoreVars, restVars>>

\* The caller goes on: the cloud and the records of the call are dropped.
UpdateDone ==
    /\ lpc = "returned"
    /\ cloud' = NullCloud
    /\ ppc' = <<>>
    /\ seen' = <<>>
    /\ background_before' = ZeroImage
    /\ writes' = {}
    /\ oob_write' = FALSE
    /\ lpc' = "idle"
    /\ UNCHANGED <<background_depth_image, depth_image, diff_depth_image, depth_images,
                   pushed, robotVars, trackerVars, searchVars, scoreVars, restVars>>

(***************************************************************************)
(* Locator::cluster and Locator::search.  With the calibration above and   *)
(* the world frame put on the LiDAR frame, cameraToLidar((u, v, depth)) is *)
(* (depth, u * depth, v * depth) and lidarToWorld is the identity.         *)
(***************************************************************************)
zoom_factor_ == 1

cameraToLidar(u, v, depth) ==
    Point(depth, (u \div zoom_factor_) * depth, (v \div zoom_factor_) * depth)

lidarToWorld(p) == p

\* The non-zero pixels of an image in the order of the loops of cluster: row
\* by row, and by column within a row.
ForegroundPixels(image) ==
    LET nz == {px \in Pixels : image[px] /= 0}
        Rank(px) == Cardinality({q \in nz : AtIndex(q) <= AtIndex(px)})
    IN  [n \in 1..Cardinality(nz) |-> CHOOSE px \in nz : Rank(px) = n]

\* pcl::EuclideanClusterExtraction::extract over n points: some clusters, each
\* a non-empty set of point indices, no index in two of them.  Which points
\* fall together is the library's matter (distances, tolerance, size limits).
RECURSIVE Extract(_)
Extract(avail) ==
    {<<>>} \cup
    UNION {{<<c>> \o rest : rest \in Extract(avail \ c)} : c \in (SUBSET avail) \ {{}}}

Extractions(n) == Extract(0..(n - 1))

\* Lines 259-263: index_cluster_map_ from clusters_.
IndexClusterMap(cs) ==
    UNION {{<<index, i - 1>> : index \in cs[i]} : i \in 1..Len(cs)}

\* Locator::cluster().
Cluster ==
    /\ lpc = "idle"
    /\ LET fg == ForegroundPixels(diff_depth_image)
           n == Len(fg)
       IN  /\ cloud_foreground' =
                [k \in 1..n |-> cameraToLidar(fg[k][1], fg[k][2], diff_depth_image[fg[k]])]
           /\ point_index_map' = {<<fg[k], k - 1>> : k \in 1..n}
           /\ IF n = 0
              THEN /\ clusters' = <<>>
                   /\ index_cluster_map' = {}
              ELSE \E cs \in Extractions(n) :
                   /\ clusters' = cs
                   /\ index_cluster_map' = IndexClusterMap(cs)
    /\ clustered' = TRUE
    /\ UNCHANGED <<locatorVars, lrobots, lrobots_in, spc, last_update,
                   robotVars, trackerVars, scoreVars, restVars>>

Rect(x, y, w, h) == [x |-> x, y |-> y, width |-> w, height |-> h]

Larger(a, b) == IF a >= b THEN a ELSE b

\* The conversion of a float to int: truncation towards zero.
TruncDiv(a, b) == IF a >= 0 THEN a \div b ELSE -((-a) \div b)

\* cv::Rect::operator&=: the intersection, the empty Rect() when there is none.
Intersect(a, b) ==
    LET x1 == Larger(a.x, b.x)
        y1 == Larger(a.y, b.y)
        w == Min(a.x + a.width, b.x + b.width) - x1
        h == Min(a.y + a.height, b.y + b.height) - y1
    IN  IF w <= 0 \/ h <= 0 THEN Rect(0, 0, 0, 0) ELSE Rect(x1, y1, w, h)

\* Locator::zoom.  center_x and center_y are kept doubled to stay in integers.
zoom(rect) ==
    LET center_x2 == 2 * rect.x * zoom_factor_ + rect.width * zoom_factor_
        center_y2 == 2 * rect.y * zoom_factor_ + rect.height * zoom_factor_
        ret_width == rect.width * zoom_factor_
        ret_height == rect.height * zoom_factor_
        ret_x == TruncDiv(center_x2 - ret_width, 2)
        ret_y == TruncDiv(center_y2 - ret_height, 2)
    IN  Intersect(Rect(ret_x, ret_y, ret_width, ret_height),
                  Rect(0, 0, image_width_zoomed_, image_height_zoomed_))

\* Lines 284-290: the pixels of the rect where the difference image is not 0.
Visited(rect) ==
    {px \in Pixels :
        /\ px[1] \in rect.x..(rect.x + rect.width - 1)
        /\ px[2] \in rect.y..(rect.y + rect.height - 1)
        /\ diff_depth_image[px] /= 0}

\* Line 291: point_index_map_.at(pixel) throws when the pixel has no entry.
HasIndex(px) == \E e \in point_index_map : e[1] = px
IndexOf(px) == (CHOOSE e \in point_index_map : e[1] = px)[2]

\* Lines 292-294.
ClusterOf(index) ==
    IF \E e \in index_cluster_map : e[1] = index
    THEN (CHOOSE e \in index_cluster_map : e[1] = index)[2]
    ELSE -1

\* Lines 281-298: candidates, as the pixels behind the points of each key.
candidates(rect, cluster_id) ==
    {px \in Visited(rect) : ClusterOf(IndexOf(px)) = cluster_id}

CandidateKeys(rect) == {ClusterOf(IndexOf(px)) : px \in Visited(rect)}

\* A mutant of the choice: the first key of the map, whatever the sizes.
FirstKey(rect) ==
    CHOOSE c \in CandidateKeys(rect) : \A k \in CandidateKeys(rect) : c <= k

\* Lines 303-306: std::ranges::max_element over the std::map, by size: the
\* first key in key order among those with the most points.
MaxElementKey(rect) ==
    LET keys == CandidateKeys(rect)
        best == {c \in keys : \A k \in keys :
                    Cardinality(candidates(rect, k)) <= Cardinality(candidates(rect, c))}
    IN  CHOOSE c \in best : \A k \in best : c <= k

\* Lines 307-309: std::accumulate over the points, divided by their number;
\* each coordinate is kept as the pair <<sum, number>>.
RECURSIVE SumPoints(_)
SumPoints(pxs) ==
    IF pxs = {} THEN Point(0, 0, 0)
    ELSE LET px == CHOOSE q \in pxs : TRUE
             p == cameraToLidar(px[1], px[2], diff_depth_image[px])
             rest == SumPoints(pxs \ {px})
         IN  Point(rest.x + p.x, rest.y + p.y, rest.z + p.z)

MeanPoint(pxs) ==
    LET sum == SumPoints(pxs)
        n == Cardinality(pxs)
    IN  Point(<<sum.x, n>>, <<sum.y, n>>, <<sum.z, n>>)

\* Locator::search(robot): the robot it leaves, or failed when the map lookup
\* of line 291 throws (search is noexcept: the program is terminated).
search(r) ==
    IF ~has_value(r.rect) THEN [failed |-> FALSE, robot |-> r]
    ELSE LET rect == zoom(value(r.rect)) IN
         IF \E px \in Visited(rect) : ~HasIndex(px)
         THEN [failed |-> TRUE, robot |-> r]
         ELSE IF CandidateKeys(rect) = {} THEN [failed |-> FALSE, robot |-> r]
         ELSE [failed |-> FALSE,
               robot |-> setLocation(r, lidarToWorld(
                             MeanPoint(candidates(rect, MaxElementKey(rect)))))]

\* The robots search is handed: assembled from a car box, some already
\* located, or without a box.
FullCar == Detection(0, 0, image_width_zoomed_, image_height_zoomed_, 0, 9)
SearchCars ==
    {FullCar,
     Detection(0, 1, 1, image_height_zoomed_ - 1, 0, 9),
     Detection(-1, -1, 2, 2, 0, 9),
     Detection(image_width_zoomed_, image_height_zoomed_, 1, 1, 0, 9)}

PriorLocation == Point(<<7, 1>>, <<7, 1>>, <<7, 1>>)

SearchRobots ==
    {EmptyRobot} \cup {Robot(c, <<>>) : c \in SearchCars}
    \cup {setLocation(Robot(FullCar, <<>>), PriorLocation)}

SearchVectors == UNION {[1..n -> SearchRobots] : n \in 0..MaxSearchRobots}

\* Lines 323-326: search(robots) is called and starts one task per robot.
SearchBegin ==
    /\ lpc = "idle"
    /\ \E rs \in SearchVectors :
        /\ lrobots' = rs
        /\ lrobots_in' = rs
        /\ spc' = [j \in 1..Len(rs) |-> "start"]
    /\ lpc' = "search"
    /\ UNCHANGED <<background_depth_image, depth_image, diff_depth_image, depth_images,
                   cloud, ppc, seen, background_before, writes, oob_write, pushed,
                   cloud_foreground, point_index_map, index_cluster_map, clusters,
                   last_update, clustered, robotVars, trackerVars, scoreVars, restVars>>

\* A mutant of the task: the location found goes to the first robot.
SearchRobotFirst(j) ==
    /\ lpc = "search"
    /\ j <= Len(spc)
    /\ spc[j] = "start"
    /\ LET res == search(lrobots[j]) IN
       IF res.failed
       THEN /\ lpc' = "terminated"
            /\ UNCHANGED <<lrobots, spc>>
       ELSE /\ lrobots' = [lrobots EXCEPT ![1] = res.robot]
            /\ spc' = [spc EXCEPT ![j] = "done"]
            /\ UNCHANGED lpc
    /\ UNCHANGED <<background_depth_image, depth_image, diff_depth_image, depth_images,
                   cloud, ppc, seen, background_before, writes, oob_write, pushed,
                   cloud_foreground, point_index_map, index_cluster_map, clusters,
                   lrobots_in, last_update, clustered, robotVars, trackerVars, scoreVars, restVars>>

\* Line 325: the task of robot j, search(robot).
SearchRobot(j) ==
    /\ lpc = "search"
    /\ j <= Len(spc)
    /\ spc[j] = "start"
    /\ LET res == search(lrobots[j]) IN
       IF res.failed
       THEN /\ lpc' = "terminated"
            /\ UNCHANGED <<lrobots, spc>>
       ELSE /\ lrobots' = [lrobots EXCEPT ![j] = res.robot]
            /\ spc' = [spc EXCEPT ![j] = "done"]
            /\ UNCHANGED lpc
    /\ UNCHANGED <<background_depth_image, depth_image, diff_depth_image, depth_images,
                   cloud, ppc, seen, background_before, writes, oob_write, pushed,
                   cloud_foreground, point_index_map, index_cluster_map, clusters,
                   lrobots_in, last_update, clustered, robotVars, trackerVars, scoreVars, restVars>>

\* Line 326: every task is over, search(robots) returns.
SearchEnd ==
    /\ lpc = "search"
    /\ \A j \in 1..Len(spc) : spc[j] = "done"
    /\ lpc' = "searched"
    /\ UNCHANGED <<background_depth_image, depth_image, diff_depth_image, depth_images,
                   cloud, ppc, seen, background_before, writes, oob_write, pushed,
                   searchVars, robotVars, trackerVars, scoreVars, restVars>>

\* The caller goes on with its robots.
SearchDone ==
    /\ lpc = "searched"
    /\ lrobots' = <<>>
    /\ lrobots_in' = <<>>
    /\ spc' = <<>>
    /\ lpc' = "idle"
    /\ UNCHANGED <<background_depth_image, depth_image, diff_depth_image, depth_images,
                   cloud, ppc, seen, background_before, writes, oob_write, pushed,
                   cloud_foreground, point_index_map, index_cluster_map, clusters,
                   last_update, clustered, robotVars, trackerVars, scoreVars, restVars>>

\* The clouds of the specification of cluster and search.
SearchClouds ==
    {NullCloud, [null |-> FALSE, points |-> <<>>],
     [null |-> FALSE, points |-> <<Point(1, 0, 0)>>]}

UpdateFew == \E c \in SearchClouds : UpdateCall(c)

(***************************************************************************)
(* Tracker::calculateCost, the distance score (lines 89-101).  Distances   *)
(* and distance_thresh are whole numbers of a length unit.  A float score  *)
(* is kept in fixed point, as the number of 1/ScoreScale it holds, every   *)
(* quotient rounded towards zero.                                          *)
(***************************************************************************)
ScoreScale == 10000
ExpTerms == 16

\* The terms from the k-th on of the series of exp(num/den), num/den >= 0.
RECURSIVE ExpSeries(_, _, _, _)
ExpSeries(num, den, k, term) ==
    IF k > ExpTerms \/ term = 0 THEN term
    ELSE term + ExpSeries(num, den, k + 1, (term * num) \div (den * k))

\* std::exp(num/den).
exp(num, den) ==
    IF num >= 0 THEN ExpSeries(num, den, 1, ScoreScale)
    ELSE (ScoreScale * ScoreScale) \div ExpSeries(-num, den, 1, ScoreScale)

\* -1 / (2 * distance_thresh_) * distance + 1.5f
Linear(d, thresh) == ((3 * thresh - d) * ScoreScale) \div (2 * thresh)

\* A mutant of the exponential branch: the exponent is 3 - distance / distance_thresh_.
ExponentialLate(d, thresh) == exp(3 * thresh - d, thresh) \div 2

\* 0.5f * std::exp(2.0f - distance / distance_thresh_)
Exponential(d, thresh) == exp(2 * thresh - d, thresh) \div 2

\* Lines 96-100: the score of a located robot at distance d of the track.
DistanceScore(d, thresh) ==
    IF d < thresh THEN ScoreScale
    ELSE IF d < 2 * thresh THEN Linear(d, thresh)
    ELSE Exponential(d, thresh)

\* calculateCost for a robot that is located, at some distance of the track.
ScoreLocated ==
    /\ \E d \in 0..(MaxRatio * distance_thresh) :
        /\ distance' = d
        /\ distance_score' = Some(DistanceScore(d, distance_thresh))
    /\ score_pc' = "located"
    /\ UNCHANGED <<distance_thresh, robotVars, trackerVars, locatorVars, searchVars, restVars>>

\* calculateCost for a robot that is detected and not located (lines 91-92).
ScoreNotLocated ==
    /\ distance_score' = Some(0)
    /\ score_pc' = "not located"
    /\ UNCHANGED <<distance_thresh, distance, robotVars, trackerVars, locatorVars, searchVars, restVars>>

(***************************************************************************)
(* Tracker::calculateCost, the early return and the feature score (lines   *)
(* 85-87 and 103-110).                                                     *)
(***************************************************************************)
\* The robots calculateCost is handed: assembled, then located or not.
CostRobots ==
    LET assembled == {Robot(TheCar, armors) : armors \in ArmorLists}
    IN  assembled \cup {setLocation(r, p) : r \in assembled, p \in TLocs}

\* The features a track may hold: that of the detected and located robot it
\* was made from (line 188).
TrackFeatures(class_num) ==
    {feature(r, class_num).vector : r \in {q \in CostRobots : NeedsTrack(q)}}

\* The square of Eigen's norm() of a vector whose entries share their
\* denominator, as the pair <<numerator, denominator>>.
RECURSIVE SquareSum(_, _)
SquareSum(vector, n) ==
    IF n = 0 THEN 0 ELSE vector[n - 1][1] * vector[n - 1][1] + SquareSum(vector, n - 1)
SquaredNorm(vector, n) == <<SquareSum(vector, n), vector[0][2] * vector[0][2]>>

\* calculateCost(track, robot): whether it returns 0 early and, when not, the
\* two features and the divisor feature_robot.norm() * feature_track.norm()
\* of line 108, squared.
calculateCost(feature_track, r, class_num) ==
    IF ~isLocated(r) /\ ~isDetected(r)
    THEN [early |-> TRUE, feature_robot |-> <<>>, divisor |-> <<>>]
    ELSE LET feature_robot == feature(r, class_num).vector
         IN  [early |-> FALSE, feature_robot |-> Some(feature_robot),
              divisor |-> Some(SquaredNorm(feature_robot, class_num)[1]
                               * SquaredNorm(feature_track, class_num)[1])]

\* One call of calculateCost with the track and the robot it was handed.
CalculateCost ==
    /\ has_value(cost_call)
    /\ ~has_value(value(cost_call).result)
    /\ LET c == value(cost_call)
       IN  cost_call' = Some([c EXCEPT !.result =
                Some(calculateCost(c.feature_track, c.robot, c.class_num))])
    /\ UNCHANGED <<coreVars, refereeVars, commVars, oldTrackVars>>

(***************************************************************************)
(* The counter-based Track (src/unnamed/part_000).                         *)
(***************************************************************************)
\* Track::Track: the counters and the state of a new track.
CounterTrack(n_init, max_age) ==
    [hits |-> 1, age |-> 1, time_since_update |-> 0, state |-> "Tentative",
     _n_init |-> n_init, _max_age |-> max_age]

\* Track::predit, after the prediction of the Kalman filter.
predit(t) ==
    [t EXCEPT !.age = t.age + 1, !.time_since_update = t.time_since_update + 1]

\* Track::update, after the update of the Kalman filter and of the features.
update(t) ==
    LET hit == [t EXCEPT !.hits = t.hits + 1, !.time_since_update = 0]
    IN  IF hit.state = "Tentative" /\ hit.hits >= hit._n_init
        THEN [hit EXCEPT !.state = "Confirmed"]
        ELSE hit

mark_missedAtMaxAge(t) ==
    IF t.state = "Tentative"
    THEN [t EXCEPT !.state = "Deleted"]
    ELSE IF t.time_since_update >= t._max_age
         THEN [t EXCEPT !.state = "Deleted"]
         ELSE t

\* Track::mark_missed.
mark_missed(t) ==
    IF t.state = "Tentative"
    THEN [t EXCEPT !.state = "Deleted"]
    ELSE IF t.time_since_update > t._max_age
         THEN [t EXCEPT !.state = "Deleted"]
         ELSE t

\* A call of predit.
Predit ==
    /\ old_track_op /= "none"
    /\ old_track.age < MaxTrackAge
    /\ old_track' = predit(old_track)
    /\ old_track_prev' = old_track
    /\ old_track_op' = "predit"
    /\ misses' = IF misses >= 0 /\ old_track_op /= "predit" THEN misses ELSE -1
    /\ UNCHANGED <<since_update, coreVars, refereeVars, commVars, costVars>>

\* A call of update.
TrackHit ==
    /\ old_track_op /= "none"
    /\ old_track.hits < MaxHits
    /\ old_track' = update(old_track)
    /\ old_track_prev' = old_track
    /\ old_track_op' = "update"
    /\ misses' = 0
    /\ since_update' = old_track'.state
    /\ UNCHANGED <<coreVars, refereeVars, commVars, costVars>>

\* A call of mark_missed.
MarkMissed ==
    /\ old_track_op /= "none"
    /\ old_track' = mark_missed(old_track)
    /\ old_track_prev' = old_track
    /\ old_track_op' = "mark_missed"
    /\ misses' = IF misses >= 0 /\ old_track_op = "predit" THEN misses + 1 ELSE -1
    /\ UNCHANGED <<since_update, coreVars, refereeVars, commVars, costVars>>

(***************************************************************************)
(* RefereeCommunicator (referee.h).  referee.cpp and the protocol header   *)
(* are not among the sources: the frame, the decode state machine, update  *)
(* and reconnect follow the spec, sections 4.4.1 to 4.4.4; the records are *)
(* the members of referee.h.  A byte is a number of 0..255.  The two CRCs  *)
(* stand for the table-driven ones of the referee system: a checksum of    *)
(* the same width that depends on every byte and on its place.             *)
(***************************************************************************)
SOF == 165                  \* 0xA5
ByteRange == 256
WordRange == 65536
HeaderLength == 5           \* SOF, DataLen (2), Seq, CRC8
FrameLength == 9            \* a frame without its Data: header, CmdID (2), CRC16 (2)
CRC8_INIT == 255
CRC16_INIT == 65535

GameStatusCmd == 1          \* 0x0001, game_status_
RobotStatusCmd == 513       \* 0x0201, radar_status_
MapRobotCmd == 773          \* 0x0305, what sendMapRobot sends: no member holds it

\* The command codes that have a record among the members, and all codes.
RecordCmds == {GameStatusCmd, RobotStatusCmd}
CommandCodes == RecordCmds \cup {MapRobotCmd}

LowByte(n) == n % ByteRange
HighByte(n) == n \div ByteRange
Word(low, high) == low + ByteRange * high

RECURSIVE Checksum(_, _, _)
Checksum(bytes, acc, range) ==
    IF bytes = <<>> THEN acc
    ELSE Checksum(Tail(bytes), (3 * acc + Head(bytes) + 1) % range, range)

getCRC8(bytes) == Checksum(bytes, CRC8_INIT, ByteRange)
getCRC16(bytes) == Checksum(bytes, CRC16_INIT, WordRange)

Front(bytes, n) == SubSeq(bytes, 1, n)
Drop(bytes, n) == SubSeq(bytes, n + 1, Len(bytes))

\* appendCRC8, appendCRC16: the CRC of the bytes before it fills the end.
appendCRC8(bytes) == bytes \o <<getCRC8(bytes)>>
appendCRC16(bytes) ==
    bytes \o <<LowByte(getCRC16(bytes)), HighByte(getCRC16(bytes))>>

\* A mutant of verifyCRC16: every packet of full length is taken.
verifyCRC16Skipped(bytes) == Len(bytes) >= 2

\* verifyCRC8, verifyCRC16: the end holds the CRC of the bytes before it.
verifyCRC8(bytes) ==
    /\ Len(bytes) >= 1
    /\ getCRC8(Front(bytes, Len(bytes) - 1)) = bytes[Len(bytes)]
verifyCRC16(bytes) ==
    /\ Len(bytes) >= 2
    /\ getCRC16(Front(bytes, Len(bytes) - 2))
         = Word(bytes[Len(bytes) - 1], bytes[Len(bytes)])

\* A mutant of encode: the CRC16 is computed before the Data is appended.
encodeCrcBeforeData(cmd, data, seq) ==
    LET header == appendCRC8(<<SOF, LowByte(Len(data)), HighByte(Len(data)), seq>>)
        crc == appendCRC16(header \o <<LowByte(cmd), HighByte(cmd)>>)
    IN  Front(crc, HeaderLength + 2) \o data \o Drop(crc, HeaderLength + 2)

\* encode(cmd, data): the bytes of the frame
\* SOF | DataLen | Seq | CRC8 | CmdID | Data | CRC16.
encode(cmd, data, seq) ==
    LET header == appendCRC8(<<SOF, LowByte(Len(data)), HighByte(Len(data)), seq>>)
    IN  appendCRC16(header \o <<LowByte(cmd), HighByte(cmd)>> \o data)

\* The place of the first SOF of the buffer, 0 when it has none.
FirstSOF(bytes) ==
    IF \E i \in 1..Len(bytes) : bytes[i] = SOF
    THEN CHOOSE i \in 1..Len(bytes) :
            bytes[i] = SOF /\ \A j \in 1..(i - 1) : bytes[j] /= SOF
    ELSE 0

\* The fields of the frame at the start of the buffer.
DataLen(bytes) == Word(bytes[2], bytes[3])
FullLength(bytes) == FrameLength + DataLen(bytes)
CmdID(bytes) == Word(bytes[HeaderLength + 1], bytes[HeaderLength + 2])
Data(bytes) == SubSeq(bytes, HeaderLength + 3, HeaderLength + 2 + DataLen(bytes))

\* fetchData(data, cmd): the record of the command code is replaced by the
\* one parsed from the data; a code without a record replaces nothing.
fetchData(recs, data, cmd) ==
    IF cmd \in RecordCmds THEN [recs EXCEPT ![cmd] = Some(data)] ELSE recs

\* A mutant of update's test: the port is taken to be open.
PortAssumedOpen == TRUE

\* update's test of the port.
PortOpen == is_connected

refereeHistory == <<sent, updates>>

\* update() on a port that is not connected.
UpdateNotConnected ==
    /\ ~PortOpen
    /\ decode_event' = "not connected"
    /\ UNCHANGED <<is_connected, data_buffer, decode_status, records, wire,
                   refereeHistory, coreVars, commVars, oldTrackVars, costVars>>

\* reconnect(): the port opens, or fails to.
Reconnect ==
    /\ ~is_connected
    /\ is_connected' \in BOOLEAN
    /\ decode_event' = "reconnect"
    /\ UNCHANGED <<data_buffer, decode_status, records, wire, refereeHistory, coreVars, commVars, oldTrackVars, costVars>>

\* update(): the bytes the line has ready go to the end of the buffer.
UpdateRead ==
    /\ PortOpen
    /\ wire /= <<>>
    /\ \E n \in 1..Min(MaxChunk, Len(wire)) :
        /\ data_buffer' = data_buffer \o Front(wire, n)
        /\ wire' = Drop(wire, n)
    /\ decode_event' = "read"
    /\ UNCHANGED <<is_connected, decode_status, records, refereeHistory, coreVars, commVars, oldTrackVars, costVars>>

\* The buffer after the scan of state Free: it starts at its first SOF, or is
\* empty when it has none.
Scan(bytes) ==
    IF FirstSOF(bytes) = 0 THEN <<>> ELSE Drop(bytes, FirstSOF(bytes) - 1)

\* decode, state Free.
DecodeFree ==
    /\ PortOpen
    /\ decode_status = "Free"
    /\ data_buffer /= <<>>
    /\ data_buffer' = Scan(data_buffer)
    /\ decode_status' = IF FirstSOF(data_buffer) = 0 THEN "Free" ELSE "Length"
    /\ decode_event' = "scan"
    /\ UNCHANGED <<is_connected, records, wire, refereeHistory, coreVars, commVars, oldTrackVars, costVars>>

\* decode, state Length.
DecodeLength ==
    /\ PortOpen
    /\ decode_status = "Length"
    /\ Len(data_buffer) >= HeaderLength
    /\ IF verifyCRC8(Front(data_buffer, HeaderLength))
       THEN /\ decode_status' = "CRC16"
            /\ decode_event' = "CRC8 verified"
            /\ UNCHANGED data_buffer
       ELSE /\ decode_status' = "Free"
            /\ decode_event' = "CRC8 failed"
            /\ data_buffer' = Tail(data_buffer)
    /\ UNCHANGED <<is_connected, records, wire, refereeHistory, coreVars, commVars, oldTrackVars, costVars>>

\* decode, state CRC16.
DecodeCRC16 ==
    /\ PortOpen
    /\ decode_status = "CRC16"
    /\ Len(data_buffer) >= FullLength(data_buffer)
    /\ LET packet == Front(data_buffer, FullLength(data_buffer)) IN
       IF verifyCRC16(packet)
       THEN /\ records' = fetchData(records, Data(packet), CmdID(packet))
            /\ updates' = IF CmdID(packet) \in RecordCmds
                          THEN Append(updates, <<CmdID(packet), Data(packet)>>)
                          ELSE updates
            /\ data_buffer' = Drop(data_buffer, Len(packet))
            /\ decode_event' = "dispatched"
       ELSE /\ data_buffer' = Tail(data_buffer)
            /\ decode_event' = "CRC16 failed"
            /\ UNCHANGED <<records, updates>>
    /\ decode_status' = "Free"
    /\ UNCHANGED <<is_connected, wire, sent, coreVars, commVars, oldTrackVars, costVars>>

\* The pieces a line is filled with: bytes that are no frame, a frame as
\* encode makes it, and a frame with one byte changed on the way.
GarbageBytes == {7, 0}
DataBytes == {1, 2}
Payloads == UNION {[1..n -> DataBytes] : n \in 0..MaxData}

Garbage(bytes) == [kind |-> "garbage", cmd |-> 0, data |-> <<>>, bytes |-> bytes]
Packet(cmd, data, seq) ==
    [kind |-> "packet", cmd |-> cmd, data |-> data, bytes |-> encode(cmd, data, seq)]
Damaged(kind, cmd, data, seq, place) ==
    [kind |-> kind, cmd |-> cmd, data |-> data,
     bytes |-> [encode(cmd, data, seq) EXCEPT ![place] = (@ + 1) % ByteRange]]

GarbagePieces == {Garbage(<<b>>) : b \in GarbageBytes} \cup {Garbage(<<7, 0>>)}
RecordPackets == {Packet(cmd, data, 0) : cmd \in RecordCmds, data \in Payloads}
Packets == {Packet(cmd, data, 0) : cmd \in CommandCodes, data \in Payloads}
BadCRC16Packets ==
    {Damaged("bad CRC16", cmd, data, 1, FrameLength + Len(data) - low) :
        cmd \in CommandCodes, data \in Payloads, low \in {0, 1}}
BadCRC8Packets ==
    {Damaged("bad CRC8", cmd, data, 1, HeaderLength) :
        cmd \in CommandCodes, data \in Payloads}

RECURSIVE Concat(_)
Concat(pieces) ==
    IF pieces = <<>> THEN <<>> ELSE Head(pieces).bytes \o Concat(Tail(pieces))

\* The lines of the framing scenario: garbage, a frame, garbage, a frame with
\* a bad CRC16, a frame.
FramingLines ==
    {<<g1, p1, g2, bad, p2>> :
        g1 \in GarbagePieces, p1 \in RecordPackets, g2 \in {Garbage(<<7>>)},
        bad \in BadCRC16Packets, p2 \in {Packet(RobotStatusCmd, <<2>>, 2)}}

\* The lines of one frame, alone or after one other piece.
ShortLines ==
    {<<p>> : p \in Packets}
    \cup {<<q, p>> : q \in GarbagePieces \cup BadCRC8Packets \cup Packets, p \in Packets}

(***************************************************************************)
(* The threads of the RefereeCommunicator and comm_mutex_ (referee.h, line *)
(* 156).  By the spec, section 5, a send and a decode-dispatch hold the    *)
(* mutex exclusively and a read of a cached record holds it shared.  The   *)
(* sender is sendMapRobot: it reads the record of the radar's status for   *)
(* its own colour, then encodes.  The receiver is update: it replaces a    *)
(* record.  The reader is any reader of a cached record.  A record is two  *)
(* halves that a writer fills one after the other and a reader reads one   *)
(* after the other.                                                        *)
(***************************************************************************)
Threads == {"sender", "receiver", "reader"}
ReadingThreads == {"sender", "reader"}
WritingThreads == {"sender", "receiver"}

\* A mutant of lock(): the shared holders do not keep a writer out.
CanLockIgnoringShared(m) == m.owner = "none"

\* std::shared_mutex::lock() returns when nobody holds the mutex.
CanLock(m) == m.owner = "none" /\ m.shared = {}

\* std::shared_mutex::lock_shared() returns when no writer holds the mutex.
CanLockShared(m) == m.owner = "none"

commData == <<record, observed, send_seq>>
exceptComm == <<coreVars, refereeVars, oldTrackVars, costVars>>

\* A reader takes the mutex shared.
LockShared(t) ==
    /\ t \in ReadingThreads
    /\ cpc[t] = "idle"
    /\ CanLockShared(comm_mutex)
    /\ comm_mutex' = [comm_mutex EXCEPT !.shared = @ \cup {t}]
    /\ cpc' = [cpc EXCEPT ![t] = "read first"]
    /\ UNCHANGED <<commData, exceptComm>>

\* It reads the first half of the record.
ReadFirst(t) ==
    /\ cpc[t] = "read first"
    /\ observed' = [observed EXCEPT ![t] = <<record[1], @[2]>>]
    /\ cpc' = [cpc EXCEPT ![t] = "read second"]
    /\ UNCHANGED <<comm_mutex, record, send_seq, exceptComm>>

\* It reads the second half.
ReadSecond(t) ==
    /\ cpc[t] = "read second"
    /\ observed' = [observed EXCEPT ![t] = <<@[1], record[2]>>]
    /\ cpc' = [cpc EXCEPT ![t] = "unlock shared"]
    /\ UNCHANGED <<comm_mutex, record, send_seq, exceptComm>>

\* It releases the mutex; the sender goes on to encode.
UnlockShared(t) ==
    /\ cpc[t] = "unlock shared"
    /\ comm_mutex' = [comm_mutex EXCEPT !.shared = @ \ {t}]
    /\ cpc' = [cpc EXCEPT ![t] = IF t = "sender" THEN "encode" ELSE "idle"]
    /\ UNCHANGED <<commData, exceptComm>>

\* A writer takes the mutex exclusively: encode of the sender, the
\* decode-dispatch of the receiver.
LockExclusive(t) ==
    /\ t \in WritingThreads
    /\ cpc[t] = IF t = "sender" THEN "encode" ELSE "idle"
    /\ CanLock(comm_mutex)
    /\ comm_mutex' = [comm_mutex EXCEPT !.owner = t]
    /\ cpc' = [cpc EXCEPT ![t] = IF t = "sender" THEN "send" ELSE "write first"]
    /\ UNCHANGED <<commData, exceptComm>>

\* encode writes the frame to the port and counts it.
Send ==
    /\ cpc["sender"] = "send"
    /\ send_seq' = (send_seq + 1) % (MaxSeq + 1)
    /\ cpc' = [cpc EXCEPT !["sender"] = "unlock"]
    /\ UNCHANGED <<comm_mutex, record, observed, exceptComm>>

\* fetchData replaces the record: its first half,
WriteFirst ==
    /\ cpc["receiver"] = "write first"
    /\ record' = <<(record[1] + 1) % (MaxRecord + 1), record[2]>>
    /\ cpc' = [cpc EXCEPT !["receiver"] = "write second"]
    /\ UNCHANGED <<comm_mutex, observed, send_seq, exceptComm>>

\* then its second half.
WriteSecond ==
    /\ cpc["receiver"] = "write second"
    /\ record' = <<record[1], record[1]>>
    /\ cpc' = [cpc EXCEPT !["receiver"] = "unlock"]
    /\ UNCHANGED <<comm_mutex, observed, send_seq, exceptComm>>

\* The writer releases the mutex.
UnlockExclusive(t) ==
    /\ cpc[t] = "unlock"
    /\ comm_mutex' = [comm_mutex EXCEPT !.owner = "none"]
    /\ cpc' = [cpc EXCEPT ![t] = "idle"]
    /\ UNCHANGED <<commData, exceptComm>>

(***************************************************************************)
(* Initial states and specifications.                                      *)
(***************************************************************************)
RobotInit ==
    /\ robot = EmptyRobot
    /\ robot_prev = EmptyRobot
    /\ track_arg = <<>>
    /\ rop = "none"
    /\ feature_out = <<>>
    /\ car_in \in Cars
    /\ armors_in \in ArmorLists

\* The Tracker and the Locator specifications hold the Robot here.
RobotIdle ==
    /\ robot = EmptyRobot
    /\ robot_prev = EmptyRobot
    /\ track_arg = <<>>
    /\ rop = "none"
    /\ feature_out = <<>>
    /\ car_in = TheCar
    /\ armors_in = <<>>

TrackerInit ==
    /\ init_thresh \in 1..MaxThreshSum
    /\ miss_thresh \in 1..MaxThreshSum
    /\ init_thresh + miss_thresh <= MaxThreshSum
    /\ tracks = <<>>
    /\ latest_id = 0
    /\ robots = <<>>
    /\ robots_in = <<>>
    /\ match_result = <<>>
    /\ tracks_pre = <<>>
    /\ tracks_mid = <<>>
    /\ unmatched = <<>>
    /\ tphase = "idle"
    /\ streak = 0

\* The Locator as constructed: cv::Mat::create leaves the three images
\* uninitialised, and nothing sets background_depth_image_ before it is read.
LocatorInit ==
    /\ background_depth_image \in BackgroundImages
    /\ depth_image \in Images
    /\ diff_depth_image \in Images
    /\ depth_images = <<>>
    /\ cloud = NullCloud
    /\ ppc = <<>>
    /\ seen = <<>>
    /\ background_before = ZeroImage
    /\ writes = {}
    /\ oob_write = FALSE
    /\ pushed = 0
    /\ lpc = "idle"
    /\ cloud_foreground = <<>>
    /\ point_index_map = {}
    /\ index_cluster_map = {}
    /\ clusters = <<>>
    /\ lrobots = <<>>
    /\ lrobots_in = <<>>
    /\ spc = <<>>
    /\ last_update = "none"
    /\ clustered = FALSE

\* The Tracker and the Robot specifications hold the Locator here.
LocatorIdle ==
    /\ background_depth_image = ZeroImage
    /\ depth_image = ZeroImage
    /\ diff_depth_image = ZeroImage
    /\ depth_images = <<>>
    /\ cloud = NullCloud
    /\ ppc = <<>>
    /\ seen = <<>>
    /\ background_before = ZeroImage
    /\ writes = {}
    /\ oob_write = FALSE
    /\ pushed = 0
    /\ lpc = "idle"
    /\ cloud_foreground = <<>>
    /\ point_index_map = {}
    /\ index_cluster_map = {}
    /\ clusters = <<>>
    /\ lrobots = <<>>
    /\ lrobots_in = <<>>
    /\ spc = <<>>
    /\ last_update = "none"
    /\ clustered = FALSE

\* The Robot and the Locator specifications hold the Tracker here.
TrackerIdle ==
    /\ init_thresh = 1
    /\ miss_thresh = 1
    /\ tracks = <<>>
    /\ latest_id = 0
    /\ robots = <<>>
    /\ robots_in = <<>>
    /\ match_result = <<>>
    /\ tracks_pre = <<>>
    /\ tracks_mid = <<>>
    /\ unmatched = <<>>
    /\ tphase = "idle"
    /\ streak = 0

\* The other specifications hold the distance score here.
ScoreIdle ==
    /\ distance_thresh = 1
    /\ distance = 0
    /\ distance_score = <<>>
    /\ score_pc = "idle"

\* The other specifications hold the RefereeCommunicator here.
RefereeIdle ==
    /\ is_connected = FALSE
    /\ data_buffer = <<>>
    /\ decode_status = "Free"
    /\ records = <<>>
    /\ wire = <<>>
    /\ sent = <<>>
    /\ updates = <<>>
    /\ decode_event = "none"

\* The other specifications hold the threads of the RefereeCommunicator here.
CommIdle ==
    /\ comm_mutex = [owner |-> "none", shared |-> {}]
    /\ cpc = <<>>
    /\ record = <<0, 0>>
    /\ observed = <<>>
    /\ send_seq = 0

\* The other specifications hold the counter-based Track here.
OldTrackIdle ==
    /\ old_track = <<>>
    /\ old_track_prev = <<>>
    /\ old_track_op = "none"
    /\ misses = 0
    /\ since_update = "none"

\* The other specifications hold calculateCost here.
CostIdle == cost_call = <<>>

RestIdle == RefereeIdle /\ CommIdle /\ OldTrackIdle /\ CostIdle

Init == RobotIdle /\ TrackerInit /\ LocatorIdle /\ ScoreIdle /\ RestIdle
Next == NewFrame \/ Update \/ EndFrame
Spec == Init /\ [][Next]_vars

InitRobot == RobotInit /\ TrackerIdle /\ LocatorIdle /\ ScoreIdle /\ RestIdle
NextRobot == RobotConstruct \/ RobotSetLocation \/ RobotSetTrack \/ RobotFeature
SpecRobot == InitRobot /\ [][NextRobot]_vars

\* Locator::update sets depth_image_ and diff_depth_image_ to 0 before it reads
\* them: of the constructed Locators, those with the two images at 0 stand for all.
InitLocator ==
    /\ RobotIdle /\ TrackerIdle /\ LocatorInit /\ ScoreIdle /\ RestIdle
    /\ depth_image = ZeroImage
    /\ diff_depth_image = ZeroImage
NextLocator ==
    \/ UpdateBegin
    \/ \E i \in 1..MaxPoints : PointRead(i)
    \/ \E i \in 1..MaxPoints : PointWrite(i)
    \/ UpdateEnd
    \/ UpdateDone
SpecLocator == InitLocator /\ [][NextLocator]_vars

\* cluster and search read the difference image and none of the two others:
\* of the constructed Locators, those with the deepest background and a zero
\* depth image are taken, their difference image holding 0 or 1 per pixel.
InitSearch ==
    /\ RobotIdle /\ TrackerIdle /\ LocatorInit /\ ScoreIdle /\ RestIdle
    /\ background_depth_image = [px \in Pixels |-> MaxDepth + 1]
    /\ depth_image = ZeroImage
    /\ diff_depth_image \in [Pixels -> {0, 1}]
NextSearch ==
    \/ UpdateFew
    \/ \E i \in 1..MaxPoints : PointRead(i)
    \/ \E i \in 1..MaxPoints : PointWrite(i)
    \/ UpdateEnd
    \/ UpdateDone
    \/ Cluster
    \/ SearchBegin
    \/ \E j \in 1..MaxSearchRobots : SearchRobot(j)
    \/ SearchEnd
    \/ SearchDone
SpecSearch == InitSearch /\ [][NextSearch]_vars

\* A Tracker constructed with any distance_thresh of 1..MaxThresh.
InitScore ==
    /\ RobotIdle /\ TrackerIdle /\ LocatorIdle /\ RestIdle
    /\ distance_thresh \in 1..MaxThresh
    /\ distance = 0
    /\ distance_score = <<>>
    /\ score_pc = "idle"
NextScore == ScoreLocated \/ ScoreNotLocated
SpecScore == InitScore /\ [][NextScore]_vars

\* The Tracker about to compute the cost of one track and one robot.
InitCost ==
    /\ RobotIdle /\ TrackerIdle /\ LocatorIdle /\ ScoreIdle
    /\ RefereeIdle /\ CommIdle /\ OldTrackIdle
    /\ \E class_num \in ClassNums :
       \E r \in CostRobots, feature_track \in TrackFeatures(class_num) :
        cost_call = Some([feature_track |-> feature_track, robot |-> r,
                          class_num |-> class_num, result |-> <<>>])

NextCost == CalculateCost

SpecCost == InitCost /\ [][NextCost]_vars

\* A counter-based Track right after its constructor.
InitTrack ==
    /\ RobotIdle /\ TrackerIdle /\ LocatorIdle /\ ScoreIdle
    /\ RefereeIdle /\ CommIdle /\ CostIdle
    /\ \E n_init \in 0..MaxNInit, max_age \in 0..MaxMaxAge :
        old_track = CounterTrack(n_init, max_age)
    /\ old_track_prev = <<>>
    /\ old_track_op = "Track"
    /\ misses = 0
    /\ since_update = "Tentative"

NextTrack == Predit \/ TrackHit \/ MarkMissed

SpecTrack == InitTrack /\ [][NextTrack]_vars

\* A RefereeCommunicator right after its construction, which opened the port
\* or failed to, with what the referee system then puts on the line.
InitReferee ==
    /\ RobotIdle /\ TrackerIdle /\ LocatorIdle /\ ScoreIdle
    /\ CommIdle /\ OldTrackIdle /\ CostIdle
    /\ is_connected \in BOOLEAN
    /\ data_buffer = <<>>
    /\ decode_status = "Free"
    /\ records = [cmd \in RecordCmds |-> nullopt]
    /\ sent \in FramingLines \cup ShortLines
    /\ wire = Concat(sent)
    /\ updates = <<>>
    /\ decode_event = "none"
NextReferee ==
    \/ UpdateNotConnected
    \/ Reconnect
    \/ UpdateRead
    \/ DecodeFree
    \/ DecodeLength
    \/ DecodeCRC16
SpecReferee == InitReferee /\ [][NextReferee]_vars

\* The three threads at rest, nobody holding the mutex.
InitComm ==
    /\ RobotIdle /\ TrackerIdle /\ LocatorIdle /\ ScoreIdle
    /\ RefereeIdle /\ OldTrackIdle /\ CostIdle
    /\ comm_mutex = [owner |-> "none", shared |-> {}]
    /\ cpc = [t \in Threads |-> "idle"]
    /\ record = <<0, 0>>
    /\ observed = [t \in ReadingThreads |-> <<0, 0>>]
    /\ send_seq = 0
NextComm ==
    \/ \E t \in Threads : LockShared(t)
    \/ \E t \in Threads : ReadFirst(t)
    \/ \E t \in Threads : ReadSecond(t)
    \/ \E t \in Threads : UnlockShared(t)
    \/ \E t \in Threads : LockExclusive(t)
    \/ Send
    \/ WriteFirst
    \/ WriteSecond
    \/ \E t \in Threads : UnlockExclusive(t)
SpecComm == InitComm /\ [][NextComm]_vars

(***************************************************************************)
(* Claims about the Tracker (specification Spec).  They are read when      *)
(* Tracker::update has returned.                                           *)
(***************************************************************************)
Returned == tphase = "returned"

\* The tracks the last update was called with, by position.
OldTracks == 1..Len(tracks_pre)
\* The tracks the last update created, by position in tracks_mid.
NewTracks == (Len(tracks_pre) + 1)..Len(tracks_mid)

Matched(i) == match_result[i] /= kNotMatched
RobotOf(i) == robots_in[match_result[i] + 1]
MatchedIndices == {match_result[i] : i \in {k \in OldTracks : Matched(k)}}

\* C1 (as claimed): a live track matched to a located robot leaves update with
\* miss_count = 0.
C1_MatchedLocatedMissCountZero ==
    Returned =>
        \A i \in OldTracks :
            (Matched(i) /\ isLocated(RobotOf(i))) => tracks_mid[i].miss_count = 0

\* C2: an unmatched Tentative track becomes Deleted; an unmatched Confirmed
\* track has miss_count incremented by exactly 1 and becomes Deleted exactly
\* when miss_count reaches miss_thresh, which it had not reached before, so a
\* Confirmed track unmatched on every tick is gone within miss_thresh ticks.
C2_UnmatchedTrack ==
    Returned =>
        \A i \in OldTracks :
            ~Matched(i) =>
                /\ isTentative(tracks_pre[i]) => isDeleted(tracks_mid[i])
                /\ isConfirmed(tracks_pre[i]) =>
                    /\ tracks_pre[i].miss_count < miss_thresh
                    /\ tracks_mid[i].miss_count = tracks_pre[i].miss_count + 1
                    /\ isDeleted(tracks_mid[i]) <=> tracks_mid[i].miss_count = miss_thresh
                    /\ ~isDeleted(tracks_mid[i]) =>
                        /\ isConfirmed(tracks_mid[i])
                        /\ tracks_mid[i].miss_count < miss_thresh

\* C2's case: a Confirmed track survives one unmatched tick and another one is
\* deleted on the tick its miss_count reaches a miss_thresh of 2.
C2_Witness ==
    /\ Returned
    /\ miss_thresh = 2
    /\ \E i \in OldTracks :
        /\ ~Matched(i)
        /\ isConfirmed(tracks_pre[i])
        /\ tracks_pre[i].miss_count = 1
        /\ isDeleted(tracks_mid[i])

\* C3 (as claimed): in the promotion scenario the track is Tentative before the
\* init_thresh-th update and Confirmed, with the robot reading Confirmed, from
\* the init_thresh-th update on.
C3_ConfirmedOnInitThreshTick ==
    (Returned /\ streak >= 1) =>
        /\ streak < init_thresh => isTentative(tracks_mid[1])
        /\ streak >= init_thresh =>
            /\ isConfirmed(tracks_mid[1])
            /\ robots[1].track_state = Some("Confirmed")

\* C3 (amended): the creating update does not count as a match: the track is
\* Tentative up to the init_thresh-th update and Confirmed, with the robot
\* reading Confirmed, from update init_thresh + 1 on.
C3_ConfirmedAfterInitThreshMatches ==
    (Returned /\ streak >= 1) =>
        /\ Len(tracks_mid) = 1
        /\ streak <= init_thresh =>
            /\ isTentative(tracks_mid[1])
            /\ robots[1].track_state = Some("Tentative")
        /\ streak >= init_thresh + 1 =>
            /\ isConfirmed(tracks_mid[1])
            /\ robots[1].track_state = Some("Confirmed")

\* C3's case: with init_thresh = 2 the third update of the scenario promotes.
C3_Witness ==
    /\ Returned
    /\ init_thresh = 2
    /\ streak = 3
    /\ isTentative(tracks_pre[1])
    /\ isConfirmed(tracks_mid[1])

\* C4: the track list never holds a Deleted track once update has returned.
C4_NoDeletedTrackSurvives ==
    tphase /= "presented" => \A i \in 1..Len(tracks) : ~isDeleted(tracks[i])

\* C4's case: the update deleted a Confirmed track and erased it.
C4_Witness ==
    /\ Returned
    /\ \E i \in OldTracks : isConfirmed(tracks_pre[i]) /\ isDeleted(tracks_mid[i])
    /\ Len(tracks) < Len(tracks_mid)

Eligible ==
    {j \in 0..(Len(robots_in) - 1) :
        /\ j \notin MatchedIndices
        /\ isDetected(robots_in[j + 1])
        /\ isLocated(robots_in[j + 1])}

\* C6: the new tracks are one per eligible robot, in index order: Tentative,
\* with the next track ids, seeded from the robot and written back into it; a
\* robot that is unmatched and not eligible is left as it was.
C6_NewTracksForUnmatchedDetectedLocated ==
    Returned =>
        /\ Cardinality(NewTracks) = Cardinality(Eligible)
        /\ \A j \in Eligible :
            LET k == Cardinality({e \in Eligible : e <= j})
                t == tracks_mid[Len(tracks_pre) + k]
            IN  /\ isTentative(t)
                /\ t.init_count = 0 /\ t.miss_count = 0
                /\ t.track_id = latest_id - Cardinality(Eligible) + k - 1
                /\ t.track_id >= 0
                /\ Some(t.location) = robots_in[j + 1].location
                /\ robots[j + 1] = [robots_in[j + 1] EXCEPT !.track_state = Some("Tentative")]
        /\ \A j \in 0..(Len(robots_in) - 1) :
            (j \notin MatchedIndices /\ j \notin Eligible) => robots[j + 1] = robots_in[j + 1]

\* C6's case: the first track ever, id 0, for the eligible robot of a frame
\* whose other robot, located but not detected, gets none.
C6_Witness ==
    /\ Returned
    /\ tracks_pre = <<>>
    /\ Len(robots_in) = 2
    /\ ~isDetected(robots_in[1]) /\ isLocated(robots_in[1])
    /\ Len(tracks_mid) = 1
    /\ tracks_mid[1].track_id = 0
    /\ robots[2].track_state = Some("Tentative")
    /\ robots[1].track_state = nullopt

StateStep(before, after) ==
    \/ after = before
    \/ before = "Tentative" /\ after \in {"Confirmed", "Deleted"}
    \/ before = "Confirmed" /\ after = "Deleted"

TrackIds(ts) == {ts[i].track_id : i \in 1..Len(ts)}

\* C25: in every update a track keeps its id and its state stays or goes
\* Tentative -> Confirmed, Tentative -> Deleted or Confirmed -> Deleted; a
\* Tentative track is promoted only on a tick where it is matched to a located
\* robot; a track that became Deleted is not in the list when the update
\* returns; and from one update to the next, a track of the list with an id
\* handed out before was in the list before, in a state it can come from: a
\* removed track never reappears.
C25_TrackLifeCycle ==
    /\ [](Returned =>
            \A i \in OldTracks :
                /\ tracks_mid[i].track_id = tracks_pre[i].track_id
                /\ StateStep(tracks_pre[i].state, tracks_mid[i].state)
                /\ (isTentative(tracks_pre[i]) /\ isConfirmed(tracks_mid[i])) =>
                        (Matched(i) /\ isLocated(RobotOf(i)))
                /\ isDeleted(tracks_mid[i]) =>
                        tracks_mid[i].track_id \notin TrackIds(tracks))
    /\ [][\A i \in 1..Len(tracks') :
            tracks'[i].track_id < latest_id =>
                \E k \in 1..Len(tracks) :
                    /\ tracks[k].track_id = tracks'[i].track_id
                    /\ StateStep(tracks[k].state, tracks'[i].state)
                    /\ ~isDeleted(tracks'[i])]_vars

\* C25's case: in one update a Tentative track matched to a robot without a
\* location stays Tentative while a Confirmed track, unmatched, is deleted and
\* removed.
C25_Witness ==
    /\ Returned
    /\ Len(tracks_pre) = 2
    /\ \E i, k \in OldTracks :
        /\ isTentative(tracks_pre[i]) /\ Matched(i) /\ ~isLocated(RobotOf(i))
        /\ isTentative(tracks_mid[i])
        /\ isConfirmed(tracks_pre[k]) /\ ~Matched(k) /\ isDeleted(tracks_mid[k])
        /\ tracks_mid[k].track_id \notin TrackIds(tracks)

\* C26: the ids of the tracks of the list are all different, increase along
\* the list (the order of creation) and are below latest_id; an update gives
\* its new tracks ids from latest_id on and never lowers latest_id: no id of
\* an earlier track, deleted or not, is given again.
C26_UniqueIncreasingIds ==
    /\ [](/\ \A i, k \in 1..Len(tracks) : i < k => tracks[i].track_id < tracks[k].track_id
          /\ \A i \in 1..Len(tracks) : tracks[i].track_id \in 0..(latest_id - 1)
          /\ Returned =>
                /\ \A i, k \in 1..Len(tracks_mid) :
                        i < k => tracks_mid[i].track_id < tracks_mid[k].track_id
                /\ \A i \in NewTracks :
                        tracks_mid[i].track_id = latest_id - Len(tracks_mid) + i - 1)
    /\ [][/\ latest_id' >= latest_id
          /\ \A i \in 1..Len(tracks') :
                tracks'[i].track_id \notin TrackIds(tracks) =>
                    tracks'[i].track_id \in latest_id..(latest_id' - 1)]_vars

\* C26's case: after track 0 was deleted and removed, a new track gets id 1
\* while the list holds no other track.
C26_Witness ==
    /\ Returned
    /\ Len(tracks_pre) = 1
    /\ tracks_pre[1].track_id = 0
    /\ isDeleted(tracks_mid[1])
    /\ Len(tracks) = 1
    /\ tracks[1].track_id = 1
    /\ latest_id = 2

\* The robots the update wrote a track into: matched, or given a new track.
Written == MatchedIndices \cup Eligible

\* C27: when update has returned on robots that came without a track state,
\* a robot's track_state is absent, Tentative or Confirmed; it is present
\* exactly for the robots matched to a track or given a new track, and it is
\* the state of that one track: no track is written into two robots; an
\* unmatched robot that is not both detected and located keeps its label,
\* location and track_state.
C27_RobotTrackState ==
    Returned =>
        /\ \A j \in 1..Len(robots) :
            /\ robots[j].track_state \in {nullopt, Some("Tentative"), Some("Confirmed")}
            /\ has_value(robots[j].track_state) <=> (j - 1) \in Written
        /\ Len(robots) = Len(robots_in)
        /\ \A i \in OldTracks :
            Matched(i) =>
                /\ robots[match_result[i] + 1].track_state = Some(tracks_mid[i].state)
                /\ \A k \in OldTracks : (k /= i) => match_result[k] /= match_result[i]
        /\ Cardinality({j \in 1..Len(robots) : has_value(robots[j].track_state)})
                = Cardinality({i \in OldTracks : Matched(i)}) + Cardinality(NewTracks)
        /\ \A j \in 1..Len(robots) :
            ((j - 1) \notin MatchedIndices
                /\ ~(isDetected(robots_in[j]) /\ isLocated(robots_in[j]))) =>
                /\ robots[j].label = robots_in[j].label
                /\ robots[j].location = robots_in[j].location
                /\ robots[j].track_state = robots_in[j].track_state

\* C27's case: of two robots, one is matched to a Confirmed track and reads
\* Confirmed, the other, located and not detected, is left without a state.
C27_Witness ==
    /\ Returned
    /\ Len(robots) = 2
    /\ Len(tracks_pre) = 1
    /\ Matched(1)
    /\ robots[match_result[1] + 1].track_state = Some("Confirmed")
    /\ \E j \in 1..2 :
        /\ (j - 1) \notin Written
        /\ isLocated(robots_in[j]) /\ ~isDetected(robots_in[j])
        /\ robots[j].track_state = nullopt

(***************************************************************************)
(* Claims about the Robot (specification SpecRobot).                       *)
(***************************************************************************)
\* C7: setTrack copies the track's state; a Confirmed track overwrites label
\* and location; a Tentative one fills each of them only when absent; rect,
\* confidence and armors stay as they were.
C7_SetTrack ==
    rop = "setTrack" =>
        LET t == track_arg[1] IN
        /\ robot.track_state = Some(t.state)
        /\ isConfirmed(t) =>
            /\ robot.label = Some(t.label)
            /\ robot.location = Some(t.location)
        /\ isTentative(t) =>
            /\ robot.label = IF has_value(robot_prev.label)
                             THEN robot_prev.label ELSE Some(t.label)
            /\ robot.location = IF has_value(robot_prev.location)
                                THEN robot_prev.location ELSE Some(t.location)
        /\ robot.rect = robot_prev.rect
        /\ robot.confidence = robot_prev.confidence
        /\ robot.armors = robot_prev.armors

\* C7's case: a robot whose armor votes gave label 5 reads label 3 after
\* setTrack with a Confirmed track of label 3.
C7_Witness ==
    /\ rop = "setTrack"
    /\ isConfirmed(track_arg[1])
    /\ track_arg[1].label = 3
    /\ robot_prev.label = Some(5)
    /\ robot_prev.track_state = nullopt
    /\ robot.label = Some(3)

\* The summed confidence of the armors of label l handed to the constructor.
VoteOf(l) ==
    SumSeq([i \in 1..Len(armors_in) |->
              IF armors_in[i].label = l THEN armors_in[i].confidence ELSE 0])

VotersOf(l) == {i \in 1..Len(armors_in) : armors_in[i].label = l}

\* C17: a Robot assembled from a car box and armors has the car box as rect;
\* its label has the maximal summed confidence among the armors' labels, its
\* confidence is that sum over the number of armors of the label, and its
\* armors are the given ones shifted by the car's corner; with no armors,
\* label, confidence and armors are absent.
C17_Assembly ==
    rop = "Robot" =>
        /\ robot.rect = Some([x |-> car_in.x, y |-> car_in.y,
                              width |-> car_in.width, height |-> car_in.height])
        /\ robot.location = nullopt
        /\ robot.track_state = nullopt
        /\ armors_in = <<>> =>
            /\ robot.label = nullopt
            /\ robot.confidence = nullopt
            /\ robot.armors = nullopt
        /\ armors_in /= <<>> =>
            /\ has_value(robot.label)
            /\ VotersOf(value(robot.label)) /= {}
            /\ \A i \in 1..Len(armors_in) :
                  VoteOf(armors_in[i].label) <= VoteOf(value(robot.label))
            /\ has_value(robot.confidence)
            /\ value(robot.confidence).num = VoteOf(value(robot.label))
            /\ value(robot.confidence).den = Cardinality(VotersOf(value(robot.label)))
            /\ has_value(robot.armors)
            /\ Len(value(robot.armors)) = Len(armors_in)
            /\ \A i \in 1..Len(armors_in) :
                  LET a == value(robot.armors)[i] IN
                  /\ a.x = armors_in[i].x + car_in.x
                  /\ a.y = armors_in[i].y + car_in.y
                  /\ a.width = armors_in[i].width
                  /\ a.height = armors_in[i].height
                  /\ a.label = armors_in[i].label
                  /\ a.confidence = armors_in[i].confidence

\* C17's case: of two armors, label 3 with confidence 4 and label 5 with
\* confidence 9, the Robot takes label 5 with confidence 9/1.
C17_Witness ==
    /\ rop = "Robot"
    /\ armors_in = <<Armor(3, 4), Armor(5, 9)>>
    /\ robot.label = Some(5)
    /\ robot.confidence = Some([num |-> 9, den |-> 1])

\* The sum of the numerators of a vector whose entries share a denominator.
RECURSIVE NumSum(_, _)
NumSum(vector, n) == IF n = 0 THEN 0 ELSE vector[n - 1][1] + NumSum(vector, n - 1)

AllZero(vector, n) == \A i \in 0..(n - 1) : vector[i][1] = 0

C19_NoArmorsZero ==
    (has_value(feature_out) /\ ~has_value(robot.armors)) =>
        /\ ~value(feature_out).failed
        /\ AllZero(value(feature_out).vector, value(feature_out).class_num)

(***************************************************************************)
(* Locator::update                                                         *)
(***************************************************************************)
Max(S) == CHOOSE m \in S : \A x \in S : x <= m

\* The depths of the points of the cloud that are not skipped and project to px.
DepthsAt(px) ==
    {lidarToCamera(cloud.points[i]).d :
        i \in {j \in 1..Len(cloud.points) :
                 ~Skipped(cloud.points[j]) /\ Target(cloud.points[j]) = px}}

\* Every point of the cloud is skipped or projects to a pixel of the image.
CloudInsideImage ==
    \A i \in 1..Len(cloud.points) :
        Skipped(cloud.points[i]) \/ Target(cloud.points[i]) \in Pixels

\* C9: when update has returned, every pixel of the background depth holds the
\* maximum of its value before the call and of the depths of the non-skipped
\* points that project to it, whatever the interleaving of the parallel loop.
\* Stated for the clouds whose points all project to pixels of the image, so
\* that only the interleaving of the loop bodies is in play.
C9_BackgroundIsMaximum ==
    (lpc = "returned" /\ CloudInsideImage) =>
        \A px \in Pixels :
            background_depth_image[px] = Max({background_before[px]} \cup DepthsAt(px))

\* C10: every write of update to depth_image and background_depth is at a
\* column in [0, W-1] and a row in [0, H-1]; a point that projects outside the
\* image, u = W and v = H included, is skipped.
C10_WritesInsideImage ==
    \A t \in writes :
        /\ t[1] \in 0..(image_width_zoomed_ - 1)
        /\ t[2] \in 0..(image_height_zoomed_ - 1)

LastOf(q, n) == SubSeq(q, Len(q) - Min(Len(q), n) + 1, Len(q))

\* C12: the queue of frames is a bounded FIFO.  At every step its length is at
\* most queue_size_ and equals min(k, queue_size_) after k updates with a
\* non-empty cloud; the return of such an update leaves in it the last
\* queue_size_ frames of the old queue followed by a copy of this update's
\* depth image, in arrival order (on overflow the oldest is the one dropped);
\* no other step changes it.
C12_BoundedFifo ==
    [][/\ Len(depth_images') <= queue_size_
       /\ Len(depth_images') = Min(pushed', queue_size_)
       /\ IF lpc = "points" /\ lpc' = "returned"
          THEN depth_images' = LastOf(Append(depth_images, depth_image'), queue_size_)
          ELSE depth_images' = depth_images]_vars

\* C12's case: more than queue_size_ frames were queued, the queue is full,
\* its frames differ, and the newest is the depth image of the update that
\* has just returned.
C12_Witness ==
    /\ lpc = "returned"
    /\ cloud.points /= <<>>
    /\ pushed = queue_size_ + 1
    /\ Len(depth_images) = queue_size_
    /\ depth_images[1] /= depth_images[queue_size_]
    /\ depth_images[queue_size_] = depth_image

\* Frame k of the queue passes the test of the difference loop at pixel px.
Passes(k, px) ==
    /\ depth_images[k][px] /= 0
    /\ min_depth_diff_ <= background_depth_image[px] - depth_images[k][px]
    /\ background_depth_image[px] - depth_images[k][px] <= max_depth_diff_

\* C14: when update has returned from a non-empty cloud, a pixel of the
\* difference image is non-zero exactly when some frame of the queue is
\* non-zero there and lies below the background (as accumulated by this
\* update) by min_depth_diff_ to max_depth_diff_, and it then holds the value
\* of one such frame, whatever the interleaving of the loop over the frames.
C14_DiffImage ==
    (lpc = "returned" /\ cloud.points /= <<>>) =>
        \A px \in Pixels :
            /\ diff_depth_image[px] /= 0 <=> \E k \in 1..Len(depth_images) : Passes(k, px)
            /\ diff_depth_image[px] /= 0 =>
                 \E k \in 1..Len(depth_images) :
                     Passes(k, px) /\ diff_depth_image[px] = depth_images[k][px]

\* C14's case: two frames of the queue pass at pixel (0, 0) with different
\* depths, and the difference image holds the depth of the older one.
C14_Witness ==
    /\ lpc = "returned"
    /\ cloud.points /= <<>>
    /\ Len(depth_images) = 2
    /\ Passes(1, <<0, 0>>)
    /\ Passes(2, <<0, 0>>)
    /\ depth_images[1][<<0, 0>>] /= depth_images[2][<<0, 0>>]
    /\ diff_depth_image[<<0, 0>>] = depth_images[1][<<0, 0>>]

(***************************************************************************)
(* Locator::cluster and Locator::search (specification SpecSearch)         *)
(***************************************************************************)
\* C13: an update with a null or an empty cloud leaves the background and the
\* queue of frames as they were; from its return to the next update the depth
\* image and the difference image are all zero, a cluster() that has run
\* leaves no foreground point and no cluster, a search that has returned
\* leaves the location of every robot as it was (unset when it was unset),
\* and no call fails.
C13_EmptyCloud ==
    /\ [](last_update = "empty" =>
            /\ lpc /= "terminated"
            /\ depth_image = ZeroImage
            /\ diff_depth_image = ZeroImage
            /\ clustered =>
                 /\ cloud_foreground = <<>>
                 /\ clusters = <<>>
                 /\ point_index_map = {}
                 /\ index_cluster_map = {}
            /\ lpc = "searched" =>
                 \A j \in 1..Len(lrobots) : lrobots[j].location = lrobots_in[j].location)
    /\ [][(lpc = "idle" /\ lpc' = "returned") =>
            /\ background_depth_image' = background_depth_image
            /\ depth_images' = depth_images]_vars

\* C13's case: the queue holds a frame, the last update had no points,
\* cluster has run after it, and a search over a robot with the whole image
\* as its box and no location has returned.
C13_Witness ==
    /\ last_update = "empty"
    /\ depth_images /= <<>>
    /\ clustered
    /\ lpc = "searched"
    /\ Len(lrobots) = 1
    /\ lrobots_in[1] = Robot(FullCar, <<>>)
    /\ lrobots[1].location = nullopt

\* The pixels of the robot's box that lie in the image (zoom_factor_ is 1).
BoxPixels(r) ==
    IF ~has_value(r.rect) THEN {}
    ELSE {px \in Pixels :
            /\ value(r.rect).x <= px[1] /\ px[1] < value(r.rect).x + value(r.rect).width
            /\ value(r.rect).y <= px[2] /\ px[2] < value(r.rect).y + value(r.rect).height}

NonZeroPixels(r) == {px \in BoxPixels(r) : diff_depth_image[px] /= 0}

\* The cluster id of a pixel: that of its foreground point, -1 when the point
\* is in no cluster.
IdOf(px) ==
    IF \E e \in point_index_map, f \in index_cluster_map : e[1] = px /\ f[1] = e[2]
    THEN (CHOOSE f \in index_cluster_map :
             \E e \in point_index_map : e[1] = px /\ f[1] = e[2])[2]
    ELSE -1

Group(r, c) == {px \in NonZeroPixels(r) : IdOf(px) = c}

\* The cluster id that wins: the most points, the smallest id among equals.
Winner(r) ==
    LET ids == {IdOf(px) : px \in NonZeroPixels(r)}
    IN  CHOOSE c \in ids : \A k \in ids :
            \/ Cardinality(Group(r, k)) < Cardinality(Group(r, c))
            \/ (Cardinality(Group(r, k)) = Cardinality(Group(r, c)) /\ c <= k)

\* C15: a search task that has finished has left its robot as it was when the
\* robot has no box, the box misses the image or holds no non-zero pixel of the
\* difference image; otherwise it has set the location to the mean of the
\* points of the winning group of the box's non-zero pixels, grouped by
\* cluster id, and changed nothing else of the robot.
C15_SearchLocation ==
    \A j \in 1..Len(spc) :
        spc[j] = "done" =>
            LET r == lrobots_in[j] IN
            IF NonZeroPixels(r) = {}
            THEN lrobots[j] = r
            ELSE lrobots[j] =
                   [r EXCEPT !.location = Some(MeanPoint(Group(r, Winner(r))))]

\* C15's case: in the box of the robot one point is in no cluster (id -1) and
\* two are in cluster 0, and the location is the mean of the two.
C15_Witness ==
    /\ lpc = "searched"
    /\ Len(lrobots) = 1
    /\ lrobots_in[1] = Robot(FullCar, <<>>)
    /\ Cardinality(Group(lrobots_in[1], -1)) = 1
    /\ Cardinality(Group(lrobots_in[1], 0)) = 2
    /\ lrobots[1].location = Some(MeanPoint(Group(lrobots_in[1], 0)))

\* What search(robots) leaves alone: the images, the background, the queue,
\* the foreground cloud and the two maps.
LocatorState ==
    <<background_depth_image, depth_image, diff_depth_image, depth_images,
      cloud_foreground, point_index_map, index_cluster_map, clusters>>

\* C16: while search(robots) runs, no step changes the Locator, and a step
\* changes no robot but the one of the task that takes it; when it has
\* returned, every robot is what search(robot) alone makes of it, whatever
\* the order of the tasks.
C16_ParallelSearch ==
    /\ [](lpc = "searched" =>
            \A j \in 1..Len(lrobots) : lrobots[j] = search(lrobots_in[j]).robot)
    /\ [][lpc = "search" =>
            /\ LocatorState' = LocatorState
            /\ \A j \in 1..Len(lrobots) :
                 lrobots'[j] /= lrobots[j] => (spc[j] = "start" /\ spc'[j] = "done")]_vars

\* C16's case: two robots with different boxes, none located, and search has
\* given them different locations.
C16_Witness ==
    /\ lpc = "searched"
    /\ Len(lrobots) = 2
    /\ ~isLocated(lrobots_in[1]) /\ ~isLocated(lrobots_in[2])
    /\ isLocated(lrobots[1]) /\ isLocated(lrobots[2])
    /\ lrobots[1].location /= lrobots[2].location

(***************************************************************************)
(* Claims about the distance score (specification SpecScore).              *)
(***************************************************************************)
\* C20: with D = distance_thresh > 0, the distance score is 1 for every
\* distance d < D; at d = D it is 1, and the linear branch gives 1 there; at
\* d = 2D it is 0.5, and the linear and the exponential branch both give 0.5
\* there; and of two distances the larger one never has the larger score.
C20_DistanceScore ==
    /\ [](score_pc = "located" =>
            /\ distance_thresh > 0
            /\ distance < distance_thresh => distance_score = Some(ScoreScale)
            /\ distance = distance_thresh =>
                /\ distance_score = Some(ScoreScale)
                /\ Linear(distance, distance_thresh) = ScoreScale
            /\ distance = 2 * distance_thresh =>
                /\ distance_score = Some(ScoreScale \div 2)
                /\ Linear(distance, distance_thresh) = ScoreScale \div 2
                /\ Exponential(distance, distance_thresh) = ScoreScale \div 2)
    /\ [][(score_pc = "located" /\ score_pc' = "located" /\ distance <= distance')
            => value(distance_score') <= value(distance_score)]_vars

\* C20's case: a score of 0.5 at twice the threshold, and a smaller one,
\* still positive, further out.
C20_Witness ==
    /\ score_pc = "located"
    /\ distance_thresh > 1
    /\ distance > 2 * distance_thresh
    /\ value(distance_score) > 0
    /\ value(distance_score) < ScoreScale \div 2
    /\ DistanceScore(2 * distance_thresh, distance_thresh) = ScoreScale \div 2

\* The maps of cluster() fit the difference image: every non-zero pixel has
\* an entry in point_index_map_, the indices are 0..n-1 for the n foreground
\* points, and every index of index_cluster_map_ is one of them.
ClusterMapsComplete ==
    LET n == Len(cloud_foreground) IN
    /\ \A px \in Pixels : diff_depth_image[px] /= 0 => HasIndex(px)
    /\ {e[2] : e \in point_index_map} = 0..(n - 1)
    /\ Cardinality(point_index_map) = n
    /\ \A f \in index_cluster_map : f[1] \in 0..(n - 1)

\* C28: once cluster() has run after the last update the maps fit the
\* difference image, so that the lookup of search succeeds; and in every other
\* order of update, cluster and search the lookup does not fail either: no
\* search ends the program.
C28_LookupNeverFails ==
    /\ clustered => ClusterMapsComplete
    /\ lpc /= "terminated"

\* C29: calculateCost never divides by zero: in every call that does not
\* return early, the robot's feature and the track's feature both have a
\* non-zero norm, also for a robot that is located and not detected.
C29_NoDivisionByZero ==
    (has_value(cost_call) /\ has_value(value(cost_call).result)
        /\ ~value(value(cost_call).result).early) =>
        LET c == value(cost_call) IN
        /\ SquaredNorm(value(value(c.result).feature_robot), c.class_num)[1] /= 0
        /\ SquaredNorm(c.feature_track, c.class_num)[1] /= 0

(***************************************************************************)
(* Claims about the counter-based Track (specification SpecTrack).         *)
(***************************************************************************)
\* The counters other than those an operation is said to change.
SameCounters(t, u) ==
    /\ t.hits = u.hits /\ t.age = u.age
    /\ t.time_since_update = u.time_since_update
    /\ t._n_init = u._n_init /\ t._max_age = u._max_age

\* C30: a new track is Tentative with hits = 1 and time_since_update = 0;
\* predit adds 1 to age and to time_since_update; update sets
\* time_since_update to 0, adds 1 to hits and makes a Tentative track
\* Confirmed exactly when hits >= n_init; mark_missed deletes a Tentative
\* track at once and a Confirmed track exactly when time_since_update >
\* max_age, so a track Confirmed at its last update survives max_age rounds
\* of predit and mark_missed and is Deleted in the round after them.
C30_CounterTrack ==
    /\ old_track_op = "Track" =>
        /\ old_track.state = "Tentative"
        /\ old_track.hits = 1
        /\ old_track.time_since_update = 0
    /\ old_track_op = "predit" =>
        /\ old_track.age = old_track_prev.age + 1
        /\ old_track.time_since_update = old_track_prev.time_since_update + 1
        /\ old_track.hits = old_track_prev.hits
        /\ old_track.state = old_track_prev.state
    /\ old_track_op = "update" =>
        /\ old_track.time_since_update = 0
        /\ old_track.hits = old_track_prev.hits + 1
        /\ old_track.age = old_track_prev.age
        /\ old_track_prev.state = "Tentative" =>
            (old_track.state = "Confirmed" <=> old_track.hits >= old_track._n_init)
        /\ old_track.state /= old_track_prev.state =>
            (old_track_prev.state = "Tentative" /\ old_track.state = "Confirmed")
    /\ old_track_op = "mark_missed" =>
        /\ SameCounters(old_track, old_track_prev)
        /\ old_track_prev.state = "Tentative" => old_track.state = "Deleted"
        /\ old_track_prev.state = "Confirmed" =>
            /\ old_track.state \in {"Confirmed", "Deleted"}
            /\ old_track.state = "Deleted" <=>
                old_track.time_since_update > old_track._max_age
    /\ (since_update = "Confirmed" /\ misses >= 0) =>
        /\ misses <= old_track._max_age => old_track.state = "Confirmed"
        /\ (misses > old_track._max_age) => old_track.state = "Deleted"

\* A track Confirmed at its last update, Deleted by the mark_missed of round
\* max_age + 1 after having survived max_age >= 1 rounds.
C30_Witness ==
    /\ old_track_op = "mark_missed"
    /\ since_update = "Confirmed"
    /\ old_track._max_age >= 1
    /\ misses = old_track._max_age + 1
    /\ old_track_prev.state = "Confirmed"
    /\ old_track.state = "Deleted"

(***************************************************************************)
(* Claims about the RefereeCommunicator (specification SpecReferee).       *)
(***************************************************************************)
\* decode has nothing to do: the line is read out and the state waits for bytes.
CanDecode ==
    \/ decode_status = "Free" /\ data_buffer /= <<>>
    \/ decode_status = "Length" /\ Len(data_buffer) >= HeaderLength
    \/ decode_status = "CRC16" /\ Len(data_buffer) >= HeaderLength
                               /\ Len(data_buffer) >= FullLength(data_buffer)
Quiescent == is_connected /\ wire = <<>> /\ ~CanDecode

\* What is left to do: it is never negative and every step of update lowers it.
StatusRank == IF decode_status = "Free" THEN 0 ELSE IF decode_status = "Length" THEN 1 ELSE 2
LeftToDo == 4 * Len(wire) + 3 * Len(data_buffer) - StatusRank
UpdateSteps ==
    {"read", "scan", "CRC8 verified", "CRC8 failed", "dispatched", "CRC16 failed"}

\* C21: when the line held garbage, a valid packet, garbage, a packet with a
\* bad CRC16 and a valid packet, and all of it is decoded, the records were
\* updated exactly twice, by the two valid packets in their order, and the
\* decoder is in Free with an empty buffer; every CRC8 or CRC16 failure takes
\* at least one byte from the buffer, returns to Free and changes no record;
\* every step lowers what is left to do, so that decoding finishes.
C21_Framing ==
    /\ []((sent \in FramingLines /\ Quiescent) =>
            /\ updates = <<<<sent[2].cmd, sent[2].data>>, <<sent[5].cmd, sent[5].data>>>>
            /\ decode_status = "Free"
            /\ data_buffer = <<>>)
    /\ [][(decode_event' \in {"CRC8 failed", "CRC16 failed"}) =>
            /\ Len(data_buffer') < Len(data_buffer)
            /\ decode_status' = "Free"
            /\ records' = records
            /\ updates' = updates]_vars
    /\ [][(decode_event' \in UpdateSteps) =>
            (LeftToDo' < LeftToDo /\ LeftToDo' >= 0)]_vars

\* C21's case: a framing line decoded to its end, with two updates.
C21_Witness ==
    /\ sent \in FramingLines
    /\ Quiescent
    /\ sent[1].bytes = <<7, 0>>
    /\ sent[4].kind = "bad CRC16"
    /\ sent[4].cmd = GameStatusCmd
    /\ Len(updates) = 2
    /\ records[GameStatusCmd] = Some(<<1>>)
    /\ records[RobotStatusCmd] = Some(<<2>>)

\* C22 as stated: the bytes encode makes of any command code and data,
\* decoded from Free and an empty buffer, update the record of the command
\* code to the data, are consumed exactly, and leave the decoder in Free.
C22_EveryCommandCode ==
    (Len(sent) = 1 /\ sent[1].kind = "packet" /\ Quiescent) =>
        /\ updates = <<<<sent[1].cmd, sent[1].data>>>>
        /\ decode_status = "Free"
        /\ data_buffer = <<>>

\* C22, amended: the bytes encode makes of a command code that has a record
\* and of any data, decoded from Free and an empty buffer, are dispatched
\* once, with the same command code and data, the record of the command code
\* then holds the data, exactly the packet's bytes are consumed and the
\* decoder is in Free; for a command code without a record the same holds
\* except that no record changes.
C22_RoundTrip ==
    /\ []((Len(sent) = 1 /\ sent[1].kind = "packet" /\ Quiescent) =>
            /\ decode_status = "Free"
            /\ data_buffer = <<>>
            /\ decode_event = "dispatched"
            /\ IF sent[1].cmd \in RecordCmds
               THEN /\ updates = <<<<sent[1].cmd, sent[1].data>>>>
                    /\ records[sent[1].cmd] = Some(sent[1].data)
                    /\ \A cmd \in RecordCmds \ {sent[1].cmd} : records[cmd] = nullopt
               ELSE /\ updates = <<>>
                    /\ \A cmd \in RecordCmds : records[cmd] = nullopt)
    /\ [][(Len(sent) = 1 /\ sent[1].kind = "packet" /\ decode_event' = "dispatched") =>
            /\ Front(data_buffer, Len(sent[1].bytes)) = sent[1].bytes
            /\ data_buffer' = Drop(data_buffer, Len(sent[1].bytes))
            /\ Len(sent[1].bytes) = FrameLength + Len(sent[1].data)]_vars

\* C22's case: a frame of the status of the robot with the data byte 2 has
\* been decoded into its record.
C22_Witness ==
    /\ Len(sent) = 1
    /\ sent[1].kind = "packet"
    /\ sent[1].cmd = RobotStatusCmd
    /\ sent[1].data = <<2>>
    /\ Quiescent
    /\ records[RobotStatusCmd] = Some(<<2>>)

\* C23: while the port is not connected, update changes neither the receive
\* buffer nor the state of decode nor any record, and returns.
C23_NotConnected ==
    [][(~is_connected /\ decode_event' \notin {"reconnect"}) =>
        /\ decode_event' = "not connected"
        /\ data_buffer' = data_buffer
        /\ decode_status' = decode_status
        /\ records' = records
        /\ wire' = wire]_vars

\* C23's case: update has returned on a port that is not connected, with
\* bytes waiting on the line.
C23_Witness ==
    /\ ~is_connected
    /\ decode_event = "not connected"
    /\ wire /= <<>>
    /\ data_buffer = <<>>

(***************************************************************************)
(* Claims about the threads of the RefereeCommunicator (SpecComm).         *)
(***************************************************************************)
Writing(t) == cpc[t] \in {"send", "write first", "write second", "unlock"}
Reading(t) == cpc[t] \in {"read first", "read second", "unlock shared"}

\* C24: a thread that sends or replaces a record holds comm_mutex_
\* exclusively, a thread that reads a record holds it shared; no two writers
\* overlap; while a writer is at work no thread is reading, so that a reader
\* finds the record whole at each of its reads and reads two halves that
\* belong together.
C24_SharedMutex ==
    /\ \A t \in Threads :
        /\ Writing(t) => (comm_mutex.owner = t /\ comm_mutex.shared = {})
        /\ Reading(t) => (t \in comm_mutex.shared /\ comm_mutex.owner = "none")
    /\ \A t, u \in Threads :
        /\ (Writing(t) /\ Writing(u)) => t = u
        /\ Writing(t) => ~Reading(u)
    /\ \A t \in ReadingThreads :
        /\ Reading(t) => record[1] = record[2]
        /\ cpc[t] = "unlock shared" => observed[t][1] = observed[t][2]

\* C24's case: the reader and the sender both hold the mutex shared and have
\* read a record the receiver has replaced before, while the receiver waits.
C24_Witness ==
    /\ cpc["reader"] = "unlock shared"
    /\ cpc["sender"] = "read second"
    /\ cpc["receiver"] = "idle"
    /\ comm_mutex.shared = {"reader", "sender"}
    /\ observed["reader"] = <<1, 1>>
    /\ send_seq = 1

====
